---- MODULE Spec2Model ----
(***************************************************************************)
(* A model of pymap's mailbox session core (pymap/backend/session.py):     *)
(* BaseSession's command handlers run by concurrent sessions against one   *)
(* shared mailbox backend.  A handler is a coroutine; each action below is *)
(* one atomic segment of a handler, from one backend call (a suspension    *)
(* point) up to the next one.                                              *)
(***************************************************************************)
EXTENDS Integers, Sequences, FiniteSets, TLC

\* ------------------------------------------------------------------ bounds

\* add() is refused once a mailbox's next_uid has reached this value.
MaxNextUid == 4
\* Commands the sessions issue in a run, all together.
MaxCmds == 3
\* Mailbox objects ever created (each takes a fresh uid_validity).
MaxValidity == 4
\* Tokens of a SEARCH key text, for the texts enumerated in full.
MaxTokens == 4
\* Commands of a sieve script at one level, for the scripts enumerated in full.
MaxCommands == 3

\* --------------------------------------------------------------- universes

Sessions == {"A", "B"}
Names == {"INBOX", "Work", "Archive"}
Flags == {"Seen", "Deleted", "Keyword"}
FlagOps == {"REPLACE", "ADD", "DELETE"}
Uids == 1..MaxNextUid

VARIABLES
    mbox,          \* the mailbox set: name -> mailbox object
    validity_gen,  \* the last uid_validity the backend handed out
    view,          \* session -> its SelectedMailbox (NoView when none)
    pc,            \* session -> where its handler is suspended
    loc,           \* session -> the handler's locals and, once idle, its result
    cmds,          \* session -> commands issued so far
    serial,        \* whether the server runs one command at a time
    subscribed,    \* the mailbox names the user is subscribed to
    buf,           \* the tokens handed to SearchKey.parse
    parsed,        \* what SearchKey.parse returned for buf (NoParse before the call)
    commands,      \* the commands a SieveRunner is constructed with
    run,           \* what get_actions returned for them (NoRun before the call)
    woken          \* the sessions whose wait the update event has ended

\* The inputs and outputs of the search-key parser and of the sieve runner.
parser == <<buf, parsed, commands, run>>

vars == <<mbox, validity_gen, view, pc, loc, cmds, serial, subscribed, parser, woken>>

\* --------------------------------------------------------- backend contract

\* The read-only bit of a mailbox (mbx.readonly).
MailboxReadonly(name) == name = "Archive"

\* The flags a mailbox persists (mbx.permanent_flags).
MailboxPermanentFlags(name) ==
    IF name = "Work" THEN {"Deleted"} ELSE {"Seen", "Deleted"}

NoMailbox ==
    [exists |-> FALSE, uid_validity |-> 0, next_uid |-> 0,
     messages |-> <<>>, selected_set |-> {}]

NewMailbox(validity) ==
    [exists |-> TRUE, uid_validity |-> validity, next_uid |-> 1,
     messages |-> <<>>, selected_set |-> {}]

\* mbx.add(msg, recent): the message takes the mailbox's next UID.
MailboxAdd(mb, flags, recent) ==
    [mb EXCEPT !.messages = [u \in DOMAIN mb.messages \cup {mb.next_uid} |->
                                IF u = mb.next_uid
                                THEN [permanent_flags |-> flags, recent |-> recent]
                                ELSE mb.messages[u]],
               !.next_uid = mb.next_uid + 1]

\* mbx.save_flags(msgs): the flags and recent bit of each loaded message are
\* written back to the stored message of that UID, if it is still there.
MailboxSaveFlags(mb, loaded) ==
    [mb EXCEPT !.messages = [u \in DOMAIN mb.messages |->
                                IF u \in DOMAIN loaded THEN loaded[u]
                                ELSE mb.messages[u]]]

\* mbx.delete(uids)
MailboxDelete(mb, uids) ==
    [mb EXCEPT !.messages = [u \in DOMAIN mb.messages \ uids |-> mb.messages[u]]]

\* mbx.find(sequence_set, selected): the stored messages the set addresses,
\* loaded as copies.
MailboxFind(mb, uid_set) ==
    [u \in DOMAIN mb.messages \cap uid_set |-> mb.messages[u]]

\* mbx.items(): (uid, permanent flags) of every stored message.
MailboxItems(mb) ==
    [u \in DOMAIN mb.messages |-> mb.messages[u].permanent_flags]

\* Message.update_flags(flag_set, mode)
ApplyFlagOp(old, flag_set, mode) ==
    CASE mode = "ADD" -> old \cup flag_set
      [] mode = "DELETE" -> old \ flag_set
      [] OTHER -> flag_set

\* ------------------------------------------------------------ selected view

NoView ==
    [name |-> "", vid |-> 0, readonly |-> FALSE, permanent_flags |-> {},
     uid_validity |-> 0, next_uid |-> 0, messages |-> <<>>,
     recent |-> {}, session_flags |-> <<>>, is_deleted |-> FALSE]

\* SelectedMailbox(name, readonly, permanent_flags, session_flags, selected_set)
NewView(name, vid, readonly) ==
    [NoView EXCEPT !.name = name, !.vid = vid, !.readonly = readonly,
                   !.permanent_flags = MailboxPermanentFlags(name)]

Selected(s) == view[s].name # ""

\* A reference to a view object: the session that made it and its serial number.
NoSel == [s |-> "", vid |-> 0]
RefOf(s) == [s |-> s, vid |-> view[s].vid]

\* session_flags.add_recent(uid) on the view a reference names; a view that its
\* session has since replaced is no longer any session's view.
AddRecent(vw, ref, uid) ==
    IF ref # NoSel /\ vw[ref.s].vid = ref.vid
    THEN [vw EXCEPT ![ref.s].recent = @ \cup {uid}]
    ELSE vw

\* session_flags.update(uid, flag_set, mode) for every uid of uids
SessionFlagsUpdate(table, uids, flag_set, mode) ==
    LET new(u) == ApplyFlagOp(IF u \in DOMAIN table THEN table[u] ELSE {},
                              flag_set, mode)
        keep == {u \in DOMAIN table \cup uids :
                    IF u \in uids THEN new(u) # {} ELSE TRUE}
    IN [u \in keep |-> IF u \in uids THEN new(u) ELSE table[u]]

\* --------------------------------------------------------------- search keys

\* SearchKey(key, filter_, inverse); the filter is the sequence of its parts.
SearchKey(key, filter_, inverse) == [key |-> key, filter |-> filter_, inverse |-> inverse]

NoKey == SearchKey("", <<>>, FALSE)

\* The parser has not been called.
NoParse == [done |-> FALSE, ok |-> FALSE, error |-> "", key |-> NoKey, rest |-> <<>>]

\* get_actions has not been called.
NoRun == [done |-> FALSE, actions |-> <<>>]

\* No sieve script is loaded.
NoScript == commands = <<>> /\ run = NoRun

\* No SEARCH is being parsed and no script run.
NoSearch == buf = <<>> /\ parsed = NoParse /\ NoScript

\* The buffer is a sequence of tokens, the text between the spaces that
\* Space.parse skips.  Token classes of the primitive parsers:
\* SequenceSet.parse, Atom.parse, AString.parse, Number.parse, the date format
\* of _parse_date_filter, Flag.parse and Flag.is_system.
SequenceSetTokens == {"1:*", "100"}
NonAtomTokens == {"(", ")", "\\Seen", "1:*"}
IsSequenceSet(tok) == tok \in SequenceSetTokens
IsAtom(tok) == tok \notin NonAtomTokens
IsAString(tok) == IsAtom(tok)
IsNumber(tok) == tok = "100"
IsDate(tok) == tok = "1-Jan-2020"
IsFlag(tok) == tok = "\\Seen" \/ IsAtom(tok)
IsSystem(tok) == tok = "\\Seen"

\* atom.value.upper()
Upper(tok) == IF tok = "all" THEN "ALL" ELSE tok

\* The keyword groups of SearchKey.parse.
NullaryKeys ==
    {"ALL", "ANSWERED", "DELETED", "FLAGGED", "NEW", "OLD", "RECENT", "SEEN",
     "UNANSWERED", "UNDELETED", "UNFLAGGED", "UNSEEN", "DRAFT", "UNDRAFT"}
StringKeys == {"BCC", "BODY", "CC", "FROM", "SUBJECT", "TEXT", "TO"}
DateKeys == {"BEFORE", "ON", "SINCE", "SENTBEFORE", "SENTON", "SENTSINCE"}
FlagKeys == {"KEYWORD", "UNKEYWORD"}
NumberKeys == {"LARGER", "SMALLER"}

\* return cls(...), buf
Parsed(k, rest) == [done |-> TRUE, ok |-> TRUE, error |-> "", key |-> k, rest |-> rest]

\* raise NotParseable(buf) / UnexpectedType(buf)
Failed(error) == [done |-> TRUE, ok |-> FALSE, error |-> error, key |-> NoKey, rest |-> <<>>]

\* An UnexpectedType is a NotParseable: the handler that lets it pass stands
\* before the one that swallows NotParseable.
NotParseableKinds == {"NotParseable", "UnexpectedType"}
IsNotParseable(error) == error \in NotParseableKinds

\* The keyword left after the single match of _not_pattern.
StripNot(b) == IF b # <<>> /\ Head(b) = "NOT" THEN Tail(b) ELSE b
HasNot(b) == b # <<>> /\ Head(b) = "NOT"

\* A KEYWORD branch that takes any flag.
KeywordFlagAny(tok) == IsFlag(tok)

\* flag, buf = Flag.parse(after, params); if flag.is_system: raise NotParseable
KeywordFlag(tok) == IsFlag(tok) /\ ~IsSystem(tok)

\* The branch of SearchKey.parse for an atom `key` followed by `rest`.
ParseAtomKey(key, rest, inverse) ==
    IF key \in NullaryKeys THEN Parsed(SearchKey(key, <<>>, inverse), rest)
    ELSE IF key \in StringKeys THEN
        IF rest # <<>> /\ IsAString(Head(rest))
        THEN Parsed(SearchKey(key, <<Head(rest)>>, inverse), Tail(rest))
        ELSE Failed("NotParseable")
    ELSE IF key \in DateKeys THEN
        IF rest = <<>> \/ ~IsAtom(Head(rest)) THEN Failed("UnexpectedType")
        ELSE IF IsDate(Head(rest))
        THEN Parsed(SearchKey(key, <<Head(rest)>>, inverse), Tail(rest))
        ELSE Failed("NotParseable")
    ELSE IF key \in FlagKeys THEN
        IF rest # <<>> /\ KeywordFlag(Head(rest))
        THEN Parsed(SearchKey(key, <<Head(rest)>>, inverse), Tail(rest))
        ELSE Failed("NotParseable")
    ELSE IF key \in NumberKeys THEN
        IF rest # <<>> /\ IsNumber(Head(rest))
        THEN Parsed(SearchKey(key, <<Head(rest)>>, inverse), Tail(rest))
        ELSE Failed("NotParseable")
    ELSE IF key = "UID" THEN
        IF rest # <<>> /\ IsSequenceSet(Head(rest))
        THEN Parsed(SearchKey("SEQSET", <<Head(rest), "UID">>, inverse), Tail(rest))
        ELSE Failed("NotParseable")
    ELSE IF key = "HEADER" THEN
        IF Len(rest) >= 2 /\ IsAString(rest[1]) /\ IsAString(rest[2])
        THEN Parsed(SearchKey(key, <<rest[1], rest[2]>>, inverse), Tail(Tail(rest)))
        ELSE Failed("NotParseable")
    ELSE Failed("NotParseable")

RECURSIVE ParseKey(_)
RECURSIVE ParseItems(_, _)

\* SearchKey.parse
ParseKey(b) ==
    LET inverse == HasNot(b)
        after == StripNot(b)
    IN  IF after = <<>> THEN Failed("NotParseable")
        ELSE IF IsSequenceSet(Head(after))
        THEN Parsed(SearchKey("SEQSET", <<Head(after)>>, inverse), Tail(after))
        ELSE IF Head(after) = "("
        THEN LET items == ParseItems(Tail(after), <<>>)
             IN  IF items.ok
                 THEN Parsed(SearchKey("KEYSET", items.key.filter, inverse), items.rest)
                 ELSE items
        ELSE IF ~IsAtom(Head(after)) THEN Failed("NotParseable")
        ELSE IF Upper(Head(after)) = "OR"
        THEN LET left == ParseKey(Tail(after))
             IN  IF ~left.ok THEN left
                 ELSE LET right == ParseKey(left.rest)
                      IN  IF ~right.ok THEN right
                          ELSE Parsed(SearchKey("OR", <<left.key, right.key>>, inverse),
                                      right.rest)
        ELSE ParseAtomKey(Upper(Head(after)), Tail(after), inverse)

\* ListP.parse with list_expected=[SearchKey]: the items up to the closing
\* parenthesis, each one a search key; what stands where an item is expected
\* and is no search key is an UnexpectedType.
ParseItems(b, items) ==
    IF b # <<>> /\ Head(b) = ")"
    THEN Parsed(SearchKey("KEYSET", items, FALSE), Tail(b))
    ELSE LET item == ParseKey(b)
         IN  IF item.ok THEN ParseItems(item.rest, Append(items, item.key))
             ELSE Failed("UnexpectedType")

\* SearchKey.not_inverse
NotInverse(k) == SearchKey(k.key, k.filter, ~k.inverse)

\* FetchRequirement, least first, and FetchRequirement.reduce.
RequirementOrder == <<"NONE", "METADATA", "HEADERS", "BODY">>
Requirements == {RequirementOrder[i] : i \in DOMAIN RequirementOrder}
Level(req) == CHOOSE i \in DOMAIN RequirementOrder : RequirementOrder[i] = req
Reduce(reqs) ==
    IF reqs = {} THEN "NONE"
    ELSE CHOOSE r \in reqs : \A q \in reqs : Level(q) <= Level(r)

HeadersKeys ==
    {"SENTBEFORE", "SENTON", "SENTSINCE", "BCC", "CC", "FROM", "SUBJECT", "TO",
     "HEADER"}
BodyKeys == {"BODY", "TEXT"}

\* A requirement that looks at the key's own tag only.
RequirementShallow(k) ==
    IF k.key = "ALL" THEN "NONE"
    ELSE IF k.key \in HeadersKeys THEN "HEADERS"
    ELSE IF k.key \in BodyKeys THEN "BODY"
    ELSE "METADATA"

RECURSIVE Requirement(_)

\* SearchKey.requirement
Requirement(k) ==
    IF k.key = "ALL" THEN "NONE"
    ELSE IF k.key = "KEYSET"
    THEN Reduce({Requirement(k.filter[i]) : i \in DOMAIN k.filter})
    ELSE IF k.key = "OR"
    THEN Reduce({Requirement(k.filter[1]), Requirement(k.filter[2])})
    ELSE IF k.key \in HeadersKeys THEN "HEADERS"
    ELSE IF k.key \in BodyKeys THEN "BODY"
    ELSE "METADATA"

\* ----------------------------------------------------------------- locals

\* A handler's locals.  `signalled` and `changed` record what the command has
\* done so far: the update events it has set and the mailboxes whose stored
\* messages it has changed.
NoLoc ==
    [cmd |-> "none", mbx |-> "", dest |-> "", dest_selected |-> NoSel,
     todo |-> <<>>, loaded |-> <<>>, uid_set |-> {}, uids |-> <<>>,
     ret_validity |-> 0, flag_set |-> {}, mode |-> "", set_seen |-> FALSE,
     error |-> "", signalled |-> {}, wait |-> "", changed |-> {}]

\* A mailbox as the store holds it when the server starts: messages 1..n with
\* the given flags, never selected so far (their recent bits are set).
Stored(validity, flagseq) ==
    [exists |-> TRUE, uid_validity |-> validity, next_uid |-> Len(flagseq) + 1,
     messages |-> [u \in 1..Len(flagseq) |->
                     [permanent_flags |-> flagseq[u], recent |-> TRUE]],
     selected_set |-> {}]

\* No session has a view and no handler runs.
IdleSessions ==
    /\ view = [s \in Sessions |-> NoView]
    /\ pc = [s \in Sessions |-> "idle"]
    /\ loc = [s \in Sessions |-> NoLoc]
    /\ cmds = [s \in Sessions |-> 0]
    /\ woken = {}
    /\ subscribed = {}

InitSessions == NoSearch /\ IdleSessions

\* An INBOX of one message, a read-only Archive of one message, no Work mailbox.
InitBackend ==
    /\ mbox = [n \in Names |->
                 CASE n = "INBOX" -> Stored(1, <<{}>>)
                   [] n = "Archive" -> Stored(2, <<{"Seen"}>>)
                   [] OTHER -> NoMailbox]
    /\ validity_gen = 2
    /\ serial = FALSE

Init == InitBackend /\ InitSessions

\* INBOX and Work hold messages whose flags their mailbox persists.
InitStored ==
    /\ \E f1 \in {{}, {"Seen"}}, g1 \in {{}, {"Deleted"}} :
          mbox = [n \in Names |->
                    CASE n = "INBOX" -> Stored(1, <<f1, {"Deleted"}>>)
                      [] n = "Archive" -> Stored(2, <<{"Seen"}>>)
                      [] OTHER -> Stored(3, <<g1>>)]
    /\ validity_gen = 3
    /\ serial = TRUE
    /\ InitSessions

\* No other session is inside a handler.
Quiet(s) == \A t \in Sessions \ {s} : pc[t] = "idle"

\* The commands issued so far.
RECURSIVE SumOver(_)
SumOver(S) ==
    IF S = {} THEN 0
    ELSE LET x == CHOOSE y \in S : TRUE IN cmds[x] + SumOver(S \ {x})

Issued == SumOver(Sessions)

\* A session may issue its next command.
CanIssue(s) ==
    /\ pc[s] = "idle"
    /\ Issued < MaxCmds
    /\ serial => Quiet(s)

\* The handler raises `error`: the command ends with no result and no refresh.
Raise(s, cmd, error) ==
    /\ loc' = [loc EXCEPT ![s] = [NoLoc EXCEPT !.cmd = cmd, !.error = error]]
    /\ pc' = [pc EXCEPT ![s] = "idle"]

\* Session s issues a command.
Issue(s) ==
    /\ cmds' = [cmds EXCEPT ![s] = @ + 1]
    /\ UNCHANGED <<serial, subscribed, parser, woken>>

\* The uids of a set, in ascending order.
RECURSIVE SortedSeq(_)
SortedSeq(S) ==
    IF S = {} THEN <<>>
    ELSE LET m == CHOOSE x \in S : \A y \in S : x <= y
         IN <<m>> \o SortedSeq(S \ {m})

\* mailbox_set.get_mailbox(name, try_create=True): the mailbox set once the
\* name is resolved, and the uid_validity counter.
GetOrCreate(name) ==
    IF mbox[name].exists
    THEN [mbox |-> mbox, gen |-> validity_gen]
    ELSE [mbox |-> [mbox EXCEPT ![name] = NewMailbox(validity_gen + 1)],
          gen |-> validity_gen + 1]

\* ------------------------------------------------------------ _load_updates

\* A refresh that adds the mailbox's next_uid to the view's instead of copying it.
LoadCopyAccumulate(v, mbx) ==
    [v EXCEPT !.uid_validity = mbx.uid_validity, !.next_uid = @ + mbx.next_uid]

\* selected.uid_validity = mbx.uid_validity; selected.next_uid = mbx.next_uid
LoadCopy(v, mbx) ==
    [v EXCEPT !.uid_validity = mbx.uid_validity, !.next_uid = mbx.next_uid]

\* The items() loop: add_messages leaves the view's map holding the pairs streamed.
LoadItemsView(v, mbx) == [v EXCEPT !.messages = MailboxItems(mbx)]

\* A refresh that leaves the view of a vanished mailbox unmarked.
SetDeletedNot(v) == v

\* selected.set_deleted()
SetDeleted(v) == [v EXCEPT !.is_deleted = TRUE]

\* _load_updates(selected, mbx) run from its start to its end over one state of
\* the mailbox set; name is "" when the caller passes no mailbox.
LoadUpdates(v, name, mb) ==
    IF v.name = "" THEN v
    ELSE IF (name = "" \/ v.name # name) /\ ~mb[v.name].exists
    THEN SetDeleted(v)
    ELSE LoadItemsView(LoadCopy(v, mb[v.name]), mb[v.name])

\* A refresh that loads the view from whatever mailbox the command hands it.
LoadUpdatesEnterTarget(v, name, mb) ==
    IF v.name = "" THEN [pc |-> "idle", view |-> v, mbx |-> name]
    ELSE IF name = ""
    THEN [pc |-> "load_get", view |-> v, mbx |-> ""]
    ELSE [pc |-> "load_items", view |-> LoadCopy(v, mb[name]), mbx |-> name]

\* _load_updates up to its first suspension point: with no view it returns;
\* with no mailbox, or one of another name, it goes to resolve the view's name;
\* otherwise it copies uid_validity and next_uid and goes on to stream items().
LoadUpdatesEnter(v, name, mb) ==
    IF v.name = "" THEN [pc |-> "idle", view |-> v, mbx |-> name]
    ELSE IF name = "" \/ v.name # name
    THEN [pc |-> "load_get", view |-> v, mbx |-> ""]
    ELSE [pc |-> "load_items", view |-> LoadCopy(v, mb[name]), mbx |-> name]

\* What a handler keeps once its own work is done: the command's name and its
\* result (the uids and uid_validity of APPENDUID or COPYUID, the events set).
Result(l) ==
    [NoLoc EXCEPT !.cmd = l.cmd, !.uids = l.uids, !.ret_validity = l.ret_validity,
                  !.set_seen = l.set_seen, !.signalled = l.signalled,
                  !.wait = l.wait, !.changed = l.changed]

\* A handler that sets no update event.
UpdatedSetNever(signalled, name) == signalled

\* mbx.selected_set.updated.set(): the events the handler has set so far.
UpdatedSet(signalled, name) == signalled \cup {name}

\* The mailboxes whose stored messages (uids, flags, recent bits) differ in mb
\* from the ones stored now: what the step that leaves mb has changed.
ChangedIn(mb) == {n \in Names : mb[n].messages # mbox[n].messages}

\* The waits that are over once the update event of mailbox `name` is set:
\* set() wakes every session waiting on the event at that moment.
Notified(name) ==
    woken \cup {t \in Sessions : pc[t] = "check_wait" /\ loc[t].mbx = name}

\* The handler of session s reaches its refresh with views vw, mailbox name and
\* mailbox set mb, and locals l.
EnterRefresh(s, vw, name, mb, l) ==
    LET e == LoadUpdatesEnter(vw[s], name, mb) IN
    /\ view' = [vw EXCEPT ![s] = e.view]
    /\ pc' = [pc EXCEPT ![s] = e.pc]
    /\ loc' = [loc EXCEPT ![s] =
                  [Result(l) EXCEPT !.mbx = e.mbx,
                                    !.changed = l.changed \cup ChangedIn(mb)]]

\* await mailbox_set.get_mailbox(selected.name) inside _load_updates
LoadGet(s) ==
    /\ pc[s] = "load_get"
    /\ LET name == view[s].name IN
       IF ~mbox[name].exists
       THEN /\ view' = [view EXCEPT ![s] = SetDeleted(@)]
            /\ pc' = [pc EXCEPT ![s] = "idle"]
            /\ loc' = loc
       ELSE /\ view' = [view EXCEPT ![s] = LoadCopy(@, mbox[name])]
            /\ pc' = [pc EXCEPT ![s] = "load_items"]
            /\ loc' = [loc EXCEPT ![s].mbx = name]
    /\ UNCHANGED <<mbox, validity_gen, cmds, serial, subscribed, parser, woken>>

\* async for uid, msg in mbx.items(): selected.add_messages(...)
LoadItems(s) ==
    /\ pc[s] = "load_items"
    /\ view' = [view EXCEPT ![s] = LoadItemsView(@, mbox[loc[s].mbx])]
    /\ pc' = [pc EXCEPT ![s] = "idle"]
    /\ loc' = [loc EXCEPT ![s].mbx = ""]
    /\ UNCHANGED <<mbox, validity_gen, cmds, serial, subscribed, parser, woken>>

\* ----------------------------------------------------------- _find_selected

\* A _find_selected that never prefers the caller's own view.
FindSelectedAny(s, name, mb) ==
    IF mb[name].selected_set = {} THEN {NoSel}
    ELSE {RefOf(t) : t \in mb[name].selected_set}

\* The views _find_selected may return for mailbox `name`: the caller's own
\* view when it has that name, else any view of the mailbox's selected set
\* (NoSel when there is none).
FindSelected(s, name, mb) ==
    IF view[s].name # "" /\ view[s].name = name
    THEN {RefOf(s)}
    ELSE IF mb[name].selected_set = {} THEN {NoSel}
    ELSE {RefOf(t) : t \in mb[name].selected_set}

\* An add that stores the recent bit whether or not a view owns it.
RecentOnAddAlways(dest_selected) == TRUE

\* recent=not dest_selected
RecentOnAdd(dest_selected) == dest_selected = NoSel

\* if mbx.readonly: raise MailboxReadOnly(name)
DestReadonly(name) == MailboxReadonly(name)

\* A handler that skips the check of the view's readonly field.
ReadOnlyViewNever(v) == FALSE

\* if selected.readonly: raise MailboxReadOnly(selected.name)
ReadOnlyView(v) == v.readonly

\* ---------------------------------------------------------- append_messages

\* append_messages up to its first add(): resolves the mailbox (creating it),
\* fails on a read-only one, finds the view that will own the recent bits.
StartAppend(s, name, msgs) ==
    /\ CanIssue(s)
    /\ mbox[name].exists \/ validity_gen < MaxValidity
    /\ LET g == GetOrCreate(name) IN
       /\ mbox' = g.mbox
       /\ validity_gen' = g.gen
       /\ IF DestReadonly(name)
          THEN Raise(s, "append", "MailboxReadOnly") /\ view' = view
          ELSE /\ \E ds \in FindSelected(s, name, g.mbox) :
                    loc' = [loc EXCEPT ![s] =
                              [NoLoc EXCEPT !.cmd = "append", !.mbx = name,
                                            !.dest = name, !.dest_selected = ds,
                                            !.todo = msgs]]
               /\ pc' = [pc EXCEPT ![s] = "append_add"]
               /\ view' = view
    /\ Issue(s)

\* One turn of the loop: await mbx.add(msg, recent=not dest_selected), then
\* add_recent and uids.append; after the last message the update event is
\* set, APPENDUID is built and _load_updates is entered.
AppendAdd(s) ==
    /\ pc[s] = "append_add"
    /\ LET l == loc[s]
           name == l.mbx
           uid == mbox[name].next_uid
           mb == [mbox EXCEPT ![name] =
                     MailboxAdd(@, Head(l.todo).flags, RecentOnAdd(l.dest_selected))]
           vw == AddRecent(view, l.dest_selected, uid)
           l2 == [l EXCEPT !.todo = Tail(@),
                           !.uids = Append(@, [src |-> 0, uid |-> uid])]
       IN
       /\ uid < MaxNextUid
       /\ mbox' = mb
       /\ IF l2.todo # <<>>
          THEN /\ view' = vw
               /\ loc' = [loc EXCEPT ![s] = l2]
               /\ pc' = pc
          ELSE EnterRefresh(s, vw, name, mb,
                            [l2 EXCEPT !.signalled = UpdatedSet(@, name),
                                       !.ret_validity = mb[name].uid_validity])
       /\ woken' = IF l2.todo # <<>> THEN woken ELSE Notified(name)
    /\ UNCHANGED <<validity_gen, cmds, serial, subscribed, parser>>

\* ----------------------------------------------------------- select_mailbox

\* The views of the mailbox set once session s has dropped its view and, with
\* name # "", registered a new one on that mailbox.
Register(mb, s, name) ==
    [n \in Names |-> [mb[n] EXCEPT !.selected_set =
                         IF n = name THEN @ \cup {s} ELSE @ \ {s}]]

\* select_mailbox up to messages(): resolves the mailbox and constructs the
\* view, which registers itself in the mailbox's selected set.
StartSelect(s, name, readonly) ==
    /\ CanIssue(s)
    /\ IF ~mbox[name].exists
       THEN Raise(s, "select", "MailboxNotFound") /\ UNCHANGED <<mbox, view>>
       ELSE LET v == NewView(name, cmds[s] + 1, readonly \/ MailboxReadonly(name)) IN
            /\ view' = [view EXCEPT ![s] = v]
            /\ mbox' = Register(mbox, s, name)
            /\ loc' = [loc EXCEPT ![s] = [NoLoc EXCEPT !.cmd = "select", !.mbx = name]]
            /\ pc' = [pc EXCEPT ![s] =
                         IF v.readonly THEN "select_snapshot" ELSE "select_messages"]
    /\ Issue(s)
    /\ UNCHANGED validity_gen

\* A SELECT that finds no message recent.
RecentMsgsNone(mb) == {}

\* The messages select_mailbox takes the recent bit of: those loaded with
\* msg.recent set.
RecentMsgs(mb) == {u \in DOMAIN mb.messages : mb.messages[u].recent}

\* async for msg in mbx.messages(): the recent ones are cleared in the loaded
\* copy and added to the view's session-recent set.
SelectMessages(s) ==
    /\ pc[s] = "select_messages"
    /\ LET mb == mbox[loc[s].mbx]
           rec == RecentMsgs(mb)
       IN
       /\ view' = [view EXCEPT ![s].recent = @ \cup rec]
       /\ loc' = [loc EXCEPT ![s].loaded =
                     [u \in rec |-> [mb.messages[u] EXCEPT !.recent = FALSE]]]
       /\ pc' = [pc EXCEPT ![s] = "select_save"]
    /\ UNCHANGED <<mbox, validity_gen, cmds, serial, subscribed, parser, woken>>

\* await mbx.save_flags(*recent_msgs)
SelectSave(s) ==
    /\ pc[s] = "select_save"
    /\ LET mb == [mbox EXCEPT ![loc[s].mbx] = MailboxSaveFlags(@, loc[s].loaded)] IN
       /\ mbox' = mb
       /\ loc' = [loc EXCEPT ![s].loaded = <<>>,
                             ![s].changed = @ \cup ChangedIn(mb)]
    /\ pc' = [pc EXCEPT ![s] = "select_snapshot"]
    /\ UNCHANGED <<validity_gen, view, cmds, serial, subscribed, parser, woken>>

\* await mbx.snapshot(), then _load_updates(selected, mbx)
SelectSnapshot(s) ==
    /\ pc[s] = "select_snapshot"
    /\ EnterRefresh(s, view, loc[s].mbx, mbox, loc[s])
    /\ UNCHANGED <<mbox, validity_gen, cmds, serial, subscribed, parser, woken>>

\* ------------------------------------------------------------ check_mailbox

\* check_mailbox without wait_on: resolves the view's mailbox, then refreshes.
StartCheck(s) ==
    /\ CanIssue(s) /\ Selected(s)
    /\ Issue(s)
    /\ IF ~mbox[view[s].name].exists
       THEN Raise(s, "check", "MailboxNotFound") /\ view' = view
       ELSE EnterRefresh(s, view, view[s].name, mbox, [NoLoc EXCEPT !.cmd = "check"])
    /\ UNCHANGED <<mbox, validity_gen>>

\* check_mailbox with wait_on, up to the wait: resolves the view's mailbox and
\* awaits or_event.wait(timeout=10.0) in _wait_for_updates.
StartCheckWait(s) ==
    /\ CanIssue(s) /\ Selected(s)
    /\ Issue(s)
    /\ IF ~mbox[view[s].name].exists
       THEN Raise(s, "check", "MailboxNotFound")
       ELSE /\ loc' = [loc EXCEPT ![s] =
                          [NoLoc EXCEPT !.cmd = "check", !.mbx = view[s].name]]
            /\ pc' = [pc EXCEPT ![s] = "check_wait"]
    /\ UNCHANGED <<mbox, validity_gen, view>>

\* The ways the wait ends: wait_on fires, the mailbox's update event fires, or
\* the timeout passes.
WaitOutcomes == {"cancelled", "updated", "timeout"}

\* A wait whose timeout reaches the caller.
WaitErrorSurfaced(outcome) == IF outcome = "timeout" THEN "TimeoutError" ELSE ""

\* What _wait_for_updates raises: except TimeoutError: pass, and an event that
\* fires raises nothing.
WaitError(outcome) == ""

\* _wait_for_updates returns and check_mailbox goes on to _load_updates.
EndWait(s, outcome) ==
    /\ pc[s] = "check_wait"
    /\ woken' = woken \ {s}
    /\ IF WaitError(outcome) # ""
       THEN Raise(s, "check", WaitError(outcome)) /\ view' = view
       ELSE EnterRefresh(s, view, loc[s].mbx, mbox, [loc[s] EXCEPT !.wait = outcome])
    /\ UNCHANGED <<mbox, validity_gen, cmds, serial, subscribed, parser>>

\* The mailbox's update event has fired during the wait.
WaitUpdated(s) == s \in woken /\ EndWait(s, "updated")

\* The caller's event wait_on fires first.
WaitCancelled(s) == s \notin woken /\ EndWait(s, "cancelled")

\* Neither event has fired when the timeout passes.
WaitTimeout(s) == s \notin woken /\ EndWait(s, "timeout")

\* ----------------------------------------------------------- fetch_messages

\* mbx = await get_mailbox(selected.name)
StartFetch(s, uid_set, set_seen) ==
    /\ CanIssue(s) /\ Selected(s)
    /\ Issue(s)
    /\ IF ~mbox[view[s].name].exists
       THEN Raise(s, "fetch", "MailboxNotFound")
       ELSE /\ loc' = [loc EXCEPT ![s] =
                          [NoLoc EXCEPT !.cmd = "fetch", !.mbx = view[s].name,
                                        !.uid_set = uid_set, !.set_seen = set_seen]]
            /\ pc' = [pc EXCEPT ![s] = "fetch_find"]
    /\ UNCHANGED <<mbox, validity_gen, view>>

\* A FETCH that sets \Seen through a read-only view as well.
SetsSeenAnyView(v, set_seen) == set_seen

\* not selected.readonly and any(attr.set_seen for attr in attributes)
SetsSeen(v, set_seen) == ~v.readonly /\ set_seen

\* msg.permanent_flags.add(Seen)
AddSeen(msg) == [msg EXCEPT !.permanent_flags = @ \cup {"Seen"}]

\* The find() loop; with set_seen on a writable view \Seen is added to every
\* loaded message and save_flags comes next, otherwise the refresh does.
FetchFind(s) ==
    /\ pc[s] = "fetch_find"
    /\ LET l == loc[s]
           ret == MailboxFind(mbox[l.mbx], l.uid_set)
       IN
       IF SetsSeen(view[s], l.set_seen)
       THEN /\ loc' = [loc EXCEPT ![s].loaded = [u \in DOMAIN ret |-> AddSeen(ret[u])]]
            /\ pc' = [pc EXCEPT ![s] = "fetch_save"]
            /\ view' = view
       ELSE EnterRefresh(s, view, l.mbx, mbox, l)
    /\ UNCHANGED <<mbox, validity_gen, cmds, serial, subscribed, parser, woken>>

\* await mbx.save_flags(...), then _load_updates(selected, mbx)
FetchSave(s) ==
    /\ pc[s] = "fetch_save"
    /\ LET l == loc[s]
           mb == [mbox EXCEPT ![l.mbx] = MailboxSaveFlags(@, l.loaded)]
       IN
       /\ mbox' = mb
       /\ EnterRefresh(s, view, l.mbx, mb, [l EXCEPT !.loaded = <<>>])
    /\ UNCHANGED <<validity_gen, cmds, serial, subscribed, parser, woken>>

\* ----------------------------------------------------------- search_mailbox

\* mbx = await get_mailbox(selected.name)
StartSearch(s) ==
    /\ CanIssue(s) /\ Selected(s)
    /\ Issue(s)
    /\ IF ~mbox[view[s].name].exists
       THEN Raise(s, "search", "MailboxNotFound")
       ELSE /\ loc' = [loc EXCEPT ![s] =
                          [NoLoc EXCEPT !.cmd = "search", !.mbx = view[s].name]]
            /\ pc' = [pc EXCEPT ![s] = "search_messages"]
    /\ UNCHANGED <<mbox, validity_gen, view>>

\* The messages() loop, which changes nothing, then _load_updates(selected, mbx)
SearchMessages(s) ==
    /\ pc[s] = "search_messages"
    /\ EnterRefresh(s, view, loc[s].mbx, mbox, loc[s])
    /\ UNCHANGED <<mbox, validity_gen, cmds, serial, subscribed, parser, woken>>

\* ---------------------------------------------------------- expunge_mailbox

\* if not uid_set: uid_set = SequenceSet.all(uid=True); no uid set is {} here.
ExpungeSet(uid_set) == IF uid_set = {} THEN Uids ELSE uid_set

\* if selected.readonly: raise MailboxReadOnly; mbx = await get_mailbox(...)
StartExpunge(s, uid_set) ==
    /\ CanIssue(s) /\ Selected(s)
    /\ Issue(s)
    /\ IF ReadOnlyView(view[s])
       THEN Raise(s, "expunge", "MailboxReadOnly")
       ELSE IF ~mbox[view[s].name].exists
       THEN Raise(s, "expunge", "MailboxNotFound")
       ELSE /\ loc' = [loc EXCEPT ![s] =
                          [NoLoc EXCEPT !.cmd = "expunge", !.mbx = view[s].name,
                                        !.uid_set = ExpungeSet(uid_set)]]
            /\ pc' = [pc EXCEPT ![s] = "expunge_find"]
    /\ UNCHANGED <<mbox, validity_gen, view>>

\* An EXPUNGE that collects every message found.
ExpungeUidsAll(found) == DOMAIN found

\* The uids of the loaded messages whose permanent flags contain \Deleted.
ExpungeUids(found) == {u \in DOMAIN found : "Deleted" \in found[u].permanent_flags}

\* The find() loop collecting expunge_uids.
ExpungeFind(s) ==
    /\ pc[s] = "expunge_find"
    /\ loc' = [loc EXCEPT ![s].uid_set =
                  ExpungeUids(MailboxFind(mbox[loc[s].mbx], loc[s].uid_set))]
    /\ pc' = [pc EXCEPT ![s] = "expunge_delete"]
    /\ UNCHANGED <<mbox, validity_gen, view, cmds, serial, subscribed, parser, woken>>

\* await mbx.delete(*expunge_uids); updated.set(); _load_updates(selected, mbx)
ExpungeDelete(s) ==
    /\ pc[s] = "expunge_delete"
    /\ LET l == loc[s]
           mb == [mbox EXCEPT ![l.mbx] = MailboxDelete(@, l.uid_set)]
       IN
       /\ mbox' = mb
       /\ EnterRefresh(s, view, l.mbx, mb, [l EXCEPT !.signalled = UpdatedSet(@, l.mbx)])
       /\ woken' = Notified(l.mbx)
    /\ UNCHANGED <<validity_gen, cmds, serial, subscribed, parser>>

\* ------------------------------------------------------------ copy_messages

\* A COPY that looks up, and so creates, its destination before its source.
CopyResolvedDestFirst(dest) == GetOrCreate(dest).mbox

\* The mailbox set when the source is resolved: the destination has not been
\* looked up yet.
CopyResolved(dest) == mbox

\* mbx = await get_mailbox(selected.name)
StartCopy(s, uid_set, dest) ==
    /\ CanIssue(s) /\ Selected(s)
    /\ Issue(s)
    /\ mbox' = CopyResolved(dest)
    /\ IF ~mbox[view[s].name].exists
       THEN Raise(s, "copy", "MailboxNotFound")
       ELSE /\ loc' = [loc EXCEPT ![s] =
                          [NoLoc EXCEPT !.cmd = "copy", !.mbx = view[s].name,
                                        !.dest = dest, !.uid_set = uid_set]]
            /\ pc' = [pc EXCEPT ![s] = "copy_dest"]
    /\ UNCHANGED <<validity_gen, view>>

\* dest = await get_mailbox(mailbox, try_create=True); a read-only destination
\* fails; dest_selected = _find_selected(selected, dest)
CopyDest(s) ==
    /\ pc[s] = "copy_dest"
    /\ LET l == loc[s] IN
       /\ mbox[l.dest].exists \/ validity_gen < MaxValidity
       /\ LET g == GetOrCreate(l.dest) IN
          /\ mbox' = g.mbox
          /\ validity_gen' = g.gen
          /\ IF DestReadonly(l.dest)
             THEN Raise(s, "copy", "MailboxReadOnly")
             ELSE /\ \E ds \in FindSelected(s, l.dest, g.mbox) :
                       loc' = [loc EXCEPT ![s].dest_selected = ds]
                  /\ pc' = [pc EXCEPT ![s] = "copy_find"]
    /\ UNCHANGED <<view, cmds, serial, subscribed, parser, woken>>

\* A COPYUID built from the source mailbox's uid_validity.
CopyUidValiditySource(mb, l) == mb[l.mbx].uid_validity

\* CopyUid(dest.uid_validity, uids)
CopyUidValidity(mb, l) == mb[l.dest].uid_validity

\* After the add loop: dest.selected_set.updated.set(), COPYUID is built from
\* dest.uid_validity, and _load_updates(selected, mbx) is entered.
CopyFinish(s, vw, mb, l) ==
    /\ EnterRefresh(s, vw, l.mbx, mb,
                    [l EXCEPT !.signalled = UpdatedSet(@, l.dest),
                              !.ret_validity = CopyUidValidity(mb, l)])
    /\ woken' = Notified(l.dest)

\* The first turn of find() on the source: the messages to copy.
CopyFind(s) ==
    /\ pc[s] = "copy_find"
    /\ LET l == loc[s]
           found == MailboxFind(mbox[l.mbx], l.uid_set)
           todo == [i \in 1..Cardinality(DOMAIN found) |->
                       [src |-> SortedSeq(DOMAIN found)[i],
                        flags |-> found[SortedSeq(DOMAIN found)[i]].permanent_flags]]
       IN
       IF todo = <<>>
       THEN CopyFinish(s, view, mbox, l)
       ELSE /\ loc' = [loc EXCEPT ![s].todo = todo]
            /\ pc' = [pc EXCEPT ![s] = "copy_add"]
            /\ view' = view
            /\ woken' = woken
    /\ UNCHANGED <<mbox, validity_gen, cmds, serial, subscribed, parser>>

\* One turn of the loop: await dest.add(msg, recent=not dest_selected), then
\* add_recent and uids.append((source_uid, msg.uid)).
CopyAdd(s) ==
    /\ pc[s] = "copy_add"
    /\ LET l == loc[s]
           uid == mbox[l.dest].next_uid
           mb == [mbox EXCEPT ![l.dest] =
                     MailboxAdd(@, Head(l.todo).flags, RecentOnAdd(l.dest_selected))]
           vw == AddRecent(view, l.dest_selected, uid)
           l2 == [l EXCEPT !.todo = Tail(@),
                           !.uids = Append(@, [src |-> Head(l.todo).src, uid |-> uid])]
       IN
       /\ uid < MaxNextUid
       /\ mbox' = mb
       /\ IF l2.todo # <<>>
          THEN /\ view' = vw
               /\ loc' = [loc EXCEPT ![s] = l2]
               /\ pc' = pc
               /\ woken' = woken
          ELSE CopyFinish(s, vw, mb, l2)
    /\ UNCHANGED <<validity_gen, cmds, serial, subscribed, parser>>

\* ------------------------------------------------------------- update_flags

\* if selected.readonly: raise MailboxReadOnly; mbx = await get_mailbox(...)
StartStore(s, uid_set, flag_set, mode) ==
    /\ CanIssue(s) /\ Selected(s)
    /\ Issue(s)
    /\ IF ReadOnlyView(view[s])
       THEN Raise(s, "store", "MailboxReadOnly")
       ELSE IF ~mbox[view[s].name].exists
       THEN Raise(s, "store", "MailboxNotFound")
       ELSE /\ loc' = [loc EXCEPT ![s] =
                          [NoLoc EXCEPT !.cmd = "store", !.mbx = view[s].name,
                                        !.uid_set = uid_set, !.flag_set = flag_set,
                                        !.mode = mode]]
            /\ pc' = [pc EXCEPT ![s] = "store_find"]
    /\ UNCHANGED <<mbox, validity_gen, view>>

\* A STORE that hands the whole flag set to the messages.
StorePermanentAll(v, flag_set) == flag_set

\* permanent_flags = selected.permanent_flags & flag_set
StorePermanent(v, flag_set) == v.permanent_flags \cap flag_set

\* The find() loop: msg.update_flags(permanent_flags, mode) on every loaded
\* message and session_flags.update(msg.uid, flag_set, mode) on the view.
StoreFind(s) ==
    /\ pc[s] = "store_find"
    /\ LET l == loc[s]
           found == MailboxFind(mbox[l.mbx], l.uid_set)
           permanent == StorePermanent(view[s], l.flag_set)
       IN
       /\ loc' = [loc EXCEPT ![s].loaded =
                     [u \in DOMAIN found |->
                         [found[u] EXCEPT !.permanent_flags =
                             ApplyFlagOp(@, permanent, l.mode)]]]
       /\ view' = [view EXCEPT ![s].session_flags =
                      SessionFlagsUpdate(@, DOMAIN found, l.flag_set, l.mode)]
       /\ pc' = [pc EXCEPT ![s] = "store_save"]
    /\ UNCHANGED <<mbox, validity_gen, cmds, serial, subscribed, parser, woken>>

\* await mbx.save_flags(...); updated.set(); _load_updates(selected, mbx)
StoreSave(s) ==
    /\ pc[s] = "store_save"
    /\ LET l == loc[s]
           mb == [mbox EXCEPT ![l.mbx] = MailboxSaveFlags(@, l.loaded)]
       IN
       /\ mbox' = mb
       /\ EnterRefresh(s, view, l.mbx, mb,
                       [l EXCEPT !.loaded = <<>>,
                                  !.signalled = UpdatedSet(@, l.mbx)])
       /\ woken' = Notified(l.mbx)
    /\ UNCHANGED <<validity_gen, cmds, serial, subscribed, parser>>

\* ------------------------------------------- create / delete / list_mailboxes

\* A handler of another session holds the mailbox object of this name.
InUse(s, name) ==
    \E t \in Sessions \ {s} :
        pc[t] \notin {"idle", "load_get"} /\ name \in {loc[t].mbx, loc[t].dest}

\* await mailbox_set.delete_mailbox(name), then _load_updates(selected, None)
StartDelete(s, name) ==
    /\ CanIssue(s) /\ ~InUse(s, name)
    /\ Issue(s)
    /\ IF ~mbox[name].exists
       THEN Raise(s, "delete", "MailboxNotFound") /\ UNCHANGED <<mbox, view>>
       ELSE /\ mbox' = [mbox EXCEPT ![name] = NoMailbox]
            /\ EnterRefresh(s, view, "", mbox', [NoLoc EXCEPT !.cmd = "delete"])
    /\ UNCHANGED validity_gen

\* await mailbox_set.add_mailbox(name), then _load_updates(selected, None)
StartCreate(s, name) ==
    /\ CanIssue(s)
    /\ Issue(s)
    /\ IF mbox[name].exists
       THEN Raise(s, "create", "MailboxConflict") /\ UNCHANGED <<mbox, view, validity_gen>>
       ELSE /\ validity_gen < MaxValidity
            /\ mbox' = GetOrCreate(name).mbox
            /\ validity_gen' = GetOrCreate(name).gen
            /\ EnterRefresh(s, view, "", mbox', [NoLoc EXCEPT !.cmd = "create"])

\* list_mailboxes: the listing, then _load_updates(selected, None)
StartList(s) ==
    /\ CanIssue(s)
    /\ Issue(s)
    /\ EnterRefresh(s, view, "", mbox, [NoLoc EXCEPT !.cmd = "list"])
    /\ UNCHANGED <<mbox, validity_gen>>

\* get_mailbox (STATUS): mbx = await mailbox_set.get_mailbox(name)
StartStatus(s, name) ==
    /\ CanIssue(s)
    /\ Issue(s)
    /\ IF ~mbox[name].exists
       THEN Raise(s, "status", "MailboxNotFound")
       ELSE /\ loc' = [loc EXCEPT ![s] = [NoLoc EXCEPT !.cmd = "status", !.mbx = name]]
            /\ pc' = [pc EXCEPT ![s] = "status_snapshot"]
    /\ UNCHANGED <<mbox, validity_gen, view>>

\* snapshot = await mbx.snapshot(), then _load_updates(selected, mbx)
StatusSnapshot(s) ==
    /\ pc[s] = "status_snapshot"
    /\ EnterRefresh(s, view, loc[s].mbx, mbox, loc[s])
    /\ UNCHANGED <<mbox, validity_gen, cmds, serial, subscribed, parser, woken>>

\* subscribe / unsubscribe: mbx = await mailbox_set.get_mailbox('INBOX')
StartSubscribe(s, name, value) ==
    /\ CanIssue(s)
    /\ Issue(s)
    /\ IF ~mbox["INBOX"].exists
       THEN Raise(s, IF value THEN "subscribe" ELSE "unsubscribe", "MailboxNotFound")
       ELSE /\ loc' = [loc EXCEPT ![s] =
                          [NoLoc EXCEPT !.cmd = IF value THEN "subscribe" ELSE "unsubscribe",
                                        !.mbx = "INBOX", !.dest = name]]
            /\ pc' = [pc EXCEPT ![s] = "subscribe_set"]
    /\ UNCHANGED <<mbox, validity_gen, view>>

\* mailbox_set.set_subscribed(name, value)
SetSubscribed(subs, name, value) == IF value THEN subs \cup {name} ELSE subs \ {name}

\* await mailbox_set.set_subscribed(name, True / False), then
\* _load_updates(selected, mbx) with the INBOX resolved before
SubscribeSet(s) ==
    /\ pc[s] = "subscribe_set"
    /\ subscribed' = SetSubscribed(subscribed, loc[s].dest, loc[s].cmd = "subscribe")
    /\ EnterRefresh(s, view, loc[s].mbx, mbox, loc[s])
    /\ UNCHANGED <<mbox, validity_gen, cmds, serial, parser, woken>>

\* ------------------------------------------------------------ specification

\* A message a client appends: no source uid, no flags.
AppendMessage == [src |-> 0, flags |-> {}]

\* The messages of one APPEND: one or two.
OneMessage == <<AppendMessage>>
TwoMessages == <<AppendMessage, AppendMessage>>
Appends == {OneMessage, TwoMessages}

\* The mailboxes that are not read-only, and those that exist from the start.
WritableNames == {"INBOX", "Work"}
StoredNames == {"Archive", "INBOX"}

\* The uid sets the commands address.
UidSets == {{1}, Uids}

\* Sessions that interleave at every suspension point: SELECT and EXAMINE,
\* APPEND, COPY and NOOP on INBOX and Work.
Next ==
    \E s \in Sessions :
        \/ \E name \in WritableNames, msgs \in Appends : StartAppend(s, name, msgs)
        \/ AppendAdd(s)
        \/ \E readonly \in BOOLEAN : StartSelect(s, "INBOX", readonly)
        \/ SelectMessages(s)
        \/ SelectSave(s)
        \/ SelectSnapshot(s)
        \/ StartCopy(s, Uids, "Work")
        \/ CopyDest(s)
        \/ CopyFind(s)
        \/ CopyAdd(s)
        \/ StartCheck(s)
        \/ LoadGet(s)
        \/ LoadItems(s)

Spec == Init /\ [][Next]_vars

\* Commands that run one at a time, each to its end, over stored mailboxes:
\* views are selected and examined, messages appended and copied.
NextSeq ==
    \E s \in Sessions :
        \/ \E name \in WritableNames, msgs \in Appends :
              StartAppend(s, name, msgs)
        \/ AppendAdd(s)
        \/ \E name \in WritableNames, readonly \in BOOLEAN :
              StartSelect(s, name, readonly)
        \/ SelectMessages(s)
        \/ SelectSave(s)
        \/ SelectSnapshot(s)
        \/ \E u \in UidSets, dest \in WritableNames : StartCopy(s, u, dest)
        \/ CopyDest(s)
        \/ CopyFind(s)
        \/ CopyAdd(s)
        \/ StartCheck(s)
        \/ LoadGet(s)
        \/ LoadItems(s)

SpecSeq == InitStored /\ [][NextSeq]_vars

\* The uid sets an EXPUNGE is given: a single uid, or none.
ExpungeSets == {{}, {2}}

\* The flag sets a STORE asks for.
StoreFlags == {{"Seen"}, {"Keyword"}, {"Seen", "Keyword"}}

\* Commands that run one at a time, each to its end, over stored mailboxes:
\* views, writable and read-only, are fetched, searched, stored and expunged.
NextFlags ==
    \E s \in Sessions :
        \/ \E name \in StoredNames :
              StartAppend(s, name, OneMessage)
        \/ AppendAdd(s)
        \/ \E name \in Names, readonly \in BOOLEAN : StartSelect(s, name, readonly)
        \/ SelectMessages(s)
        \/ SelectSave(s)
        \/ SelectSnapshot(s)
        \/ StartCheck(s)
        \/ \E u \in UidSets, set_seen \in BOOLEAN : StartFetch(s, u, set_seen)
        \/ FetchFind(s)
        \/ FetchSave(s)
        \/ StartSearch(s)
        \/ SearchMessages(s)
        \/ \E u \in ExpungeSets : StartExpunge(s, u)
        \/ ExpungeFind(s)
        \/ ExpungeDelete(s)
        \/ \E u \in UidSets, f \in StoreFlags, mode \in FlagOps :
              StartStore(s, u, f, mode)
        \/ StoreFind(s)
        \/ StoreSave(s)
        \/ LoadGet(s)
        \/ LoadItems(s)

SpecFlags == InitStored /\ [][NextFlags]_vars

\* Mailboxes that are deleted and created while sessions have them selected.
NextAdmin ==
    \E s \in Sessions :
        \/ \E name \in WritableNames : StartSelect(s, name, FALSE)
        \/ SelectMessages(s)
        \/ SelectSave(s)
        \/ SelectSnapshot(s)
        \/ \E name \in WritableNames : StartDelete(s, name)
        \/ \E name \in WritableNames : StartCreate(s, name)
        \/ StartList(s)
        \/ StartCheck(s)
        \/ StartFetch(s, Uids, TRUE)
        \/ FetchFind(s)
        \/ FetchSave(s)
        \/ StartSearch(s)
        \/ SearchMessages(s)
        \/ \E name \in WritableNames : StartAppend(s, name, OneMessage)
        \/ AppendAdd(s)
        \/ LoadGet(s)
        \/ LoadItems(s)

SpecAdmin == InitStored /\ [][NextAdmin]_vars

\* The view a completed SELECT of a writable mailbox returns.
SelectedView(name, recent, mb) ==
    LoadItemsView(LoadCopy([NewView(name, 0, FALSE) EXCEPT !.recent = recent], mb), mb)

\* The flags of the one message INBOX holds.
UnseenMessage == <<{}>>

\* INBOX as two completed SELECTs leave it: the stored recent bits are cleared
\* and both sessions are in its selected set.
SharedInbox ==
    [Stored(1, UnseenMessage) EXCEPT
        !.messages = [u \in DOMAIN @ |-> [@[u] EXCEPT !.recent = FALSE]],
        !.selected_set = Sessions]

\* Both sessions have INBOX selected; A selected first and owns the recent bit
\* of its message.
InitPeers ==
    /\ mbox = [n \in Names |->
                 CASE n = "INBOX" -> SharedInbox
                   [] n = "Archive" -> Stored(2, <<{"Seen"}>>)
                   [] OTHER -> NewMailbox(3)]
    /\ validity_gen = 3
    /\ serial = FALSE
    /\ NoSearch
    /\ view = [s \in Sessions |->
                 SelectedView("INBOX", IF s = "A" THEN {1} ELSE {}, SharedInbox)]
    /\ pc = [s \in Sessions |-> "idle"]
    /\ loc = [s \in Sessions |-> NoLoc]
    /\ cmds = [s \in Sessions |-> 0]
    /\ woken = {}
    /\ subscribed = {}

\* Two sessions on the same selected mailbox append and poll, interleaved at
\* every suspension point.
NextPeers ==
    \E s \in Sessions :
        \/ \E name \in WritableNames, msgs \in Appends : StartAppend(s, name, msgs)
        \/ AppendAdd(s)
        \/ StartCheck(s)
        \/ LoadGet(s)
        \/ LoadItems(s)

SpecPeers == InitPeers /\ [][NextPeers]_vars

\* The flags of the two messages INBOX holds, the second one to be expunged.
DeletedSecond == <<{}, {"Deleted"}>>

\* INBOX of two messages as two completed SELECTs leave it.
SignalInbox ==
    [Stored(1, DeletedSecond) EXCEPT
        !.messages = [u \in DOMAIN @ |-> [@[u] EXCEPT !.recent = FALSE]],
        !.selected_set = Sessions]

\* Both sessions have INBOX selected, writable.
InitSignal ==
    /\ mbox = [n \in Names |->
                 CASE n = "INBOX" -> SignalInbox
                   [] n = "Archive" -> Stored(2, <<{"Seen"}>>)
                   [] OTHER -> NewMailbox(3)]
    /\ validity_gen = 3
    /\ serial = FALSE
    /\ NoSearch
    /\ view = [s \in Sessions |-> SelectedView("INBOX", {}, SignalInbox)]
    /\ pc = [s \in Sessions |-> "idle"]
    /\ loc = [s \in Sessions |-> NoLoc]
    /\ cmds = [s \in Sessions |-> 0]
    /\ woken = {}
    /\ subscribed = {}

SeenOnly == {"Seen"}

\* Two sessions on the same selected mailbox run the commands that change it,
\* APPEND, EXPUNGE, COPY and STORE, interleaved at every suspension point.
NextSignal ==
    \E s \in Sessions :
        \/ \E name \in WritableNames : StartAppend(s, name, OneMessage)
        \/ AppendAdd(s)
        \/ StartExpunge(s, {})
        \/ ExpungeFind(s)
        \/ ExpungeDelete(s)
        \/ StartCopy(s, Uids, "Work")
        \/ CopyDest(s)
        \/ CopyFind(s)
        \/ CopyAdd(s)
        \/ \E mode \in FlagOps : StartStore(s, Uids, SeenOnly, mode)
        \/ StoreFind(s)
        \/ StoreSave(s)
        \/ LoadGet(s)
        \/ LoadItems(s)

SpecSignal == InitSignal /\ [][NextSignal]_vars

\* INBOX holds two messages never selected so far, Work is empty; commands run
\* one at a time.
InitSelect ==
    /\ mbox = [n \in Names |->
                 CASE n = "INBOX" -> Stored(1, DeletedSecond)
                   [] n = "Archive" -> Stored(2, <<{"Seen"}>>)
                   [] OTHER -> NewMailbox(3)]
    /\ validity_gen = 3
    /\ serial = TRUE
    /\ InitSessions

\* Mailboxes are selected, examined, appended to and polled.
NextSelect ==
    \E s \in Sessions :
        \/ \E name \in WritableNames, readonly \in BOOLEAN :
              StartSelect(s, name, readonly)
        \/ SelectMessages(s)
        \/ SelectSave(s)
        \/ SelectSnapshot(s)
        \/ \E name \in WritableNames, msgs \in Appends : StartAppend(s, name, msgs)
        \/ AppendAdd(s)
        \/ StartCheck(s)
        \/ LoadGet(s)
        \/ LoadItems(s)

SpecSelect == InitSelect /\ [][NextSelect]_vars

\* Two sessions on the same selected mailbox: each waits for updates (IDLE)
\* while the other appends and expunges.
NextWait ==
    \E s \in Sessions :
        \/ StartCheckWait(s)
        \/ WaitCancelled(s)
        \/ WaitUpdated(s)
        \/ WaitTimeout(s)
        \/ \E name \in WritableNames : StartAppend(s, name, OneMessage)
        \/ AppendAdd(s)
        \/ StartExpunge(s, {})
        \/ ExpungeFind(s)
        \/ ExpungeDelete(s)
        \/ LoadGet(s)
        \/ LoadItems(s)

SpecWait == InitSignal /\ [][NextWait]_vars

\* The timeout passes, a wait that an event has ended returns, and a backend
\* call of the refresh returns.
WaitFairness ==
    \A s \in Sessions :
        /\ WF_vars(WaitTimeout(s))
        /\ WF_vars(WaitUpdated(s))
        /\ WF_vars(LoadGet(s))
        /\ WF_vars(LoadItems(s))

SpecWaitFair == SpecWait /\ WaitFairness

\* INBOX is selected by both sessions; Work holds a message never selected.
InitNotify ==
    /\ mbox = [n \in Names |->
                 CASE n = "INBOX" -> SignalInbox
                   [] n = "Archive" -> Stored(2, <<{"Seen"}>>)
                   [] OTHER -> Stored(3, UnseenMessage)]
    /\ validity_gen = 3
    /\ serial = FALSE
    /\ NoSearch
    /\ view = [s \in Sessions |-> SelectedView("INBOX", {}, SignalInbox)]
    /\ pc = [s \in Sessions |-> "idle"]
    /\ loc = [s \in Sessions |-> NoLoc]
    /\ cmds = [s \in Sessions |-> 0]
    /\ woken = {}
    /\ subscribed = {}

\* A session waits for updates while its peer fetches, stores, appends and
\* selects, interleaved at every suspension point.
NextNotify ==
    \E s \in Sessions :
        \/ StartCheckWait(s)
        \/ WaitCancelled(s)
        \/ WaitUpdated(s)
        \/ WaitTimeout(s)
        \/ \E set_seen \in BOOLEAN : StartFetch(s, Uids, set_seen)
        \/ FetchFind(s)
        \/ FetchSave(s)
        \/ \E name \in WritableNames : StartSelect(s, name, FALSE)
        \/ SelectMessages(s)
        \/ SelectSave(s)
        \/ SelectSnapshot(s)
        \/ StartStore(s, Uids, SeenOnly, "ADD")
        \/ StoreFind(s)
        \/ StoreSave(s)
        \/ \E name \in WritableNames : StartAppend(s, name, OneMessage)
        \/ AppendAdd(s)
        \/ LoadGet(s)
        \/ LoadItems(s)

SpecNotify == InitNotify /\ [][NextNotify]_vars

\* A mailbox of the given messages that one session has selected.
SelectedBy(s, validity, flagseq) ==
    [Stored(validity, flagseq) EXCEPT
        !.messages = [u \in DOMAIN @ |-> [@[u] EXCEPT !.recent = FALSE]],
        !.selected_set = {s}]

\* A has INBOX selected and B has Work; the two mailboxes differ in
\* uid_validity, next_uid and messages.
SelectedApart ==
    /\ mbox = [n \in Names |->
                 CASE n = "INBOX" -> SelectedBy("A", 1, UnseenMessage)
                   [] n = "Archive" -> Stored(2, <<{"Seen"}>>)
                   [] OTHER -> SelectedBy("B", 3, DeletedSecond)]
    /\ validity_gen = 3
    /\ NoSearch
    /\ view = [s \in Sessions |->
                 IF s = "A" THEN SelectedView("INBOX", {}, SelectedBy("A", 1, UnseenMessage))
                 ELSE SelectedView("Work", {}, SelectedBy("B", 3, DeletedSecond))]
    /\ pc = [s \in Sessions |-> "idle"]
    /\ loc = [s \in Sessions |-> NoLoc]
    /\ cmds = [s \in Sessions |-> 0]
    /\ woken = {}
    /\ subscribed = {}

InitTarget == SelectedApart /\ serial = FALSE

\* Commands whose mailbox is not the selected one: APPEND, STATUS, SUBSCRIBE
\* and UNSUBSCRIBE, interleaved at every suspension point.
NextTarget ==
    \E s \in Sessions :
        \/ \E name \in WritableNames : StartAppend(s, name, OneMessage)
        \/ AppendAdd(s)
        \/ \E name \in Names : StartStatus(s, name)
        \/ StatusSnapshot(s)
        \/ \E value \in BOOLEAN : StartSubscribe(s, "Work", value)
        \/ SubscribeSet(s)
        \/ LoadGet(s)
        \/ LoadItems(s)

SpecTarget == InitTarget /\ [][NextTarget]_vars

\* The two sessions as above; commands run one at a time.
InitMissing == SelectedApart /\ serial = TRUE

\* The uid set and the flags the commands on a vanished mailbox are given.
FirstUid == {1}

\* Mailboxes are deleted under the views that have them selected, and every
\* command that resolves a mailbox by name is then issued.
NextMissing ==
    \E s \in Sessions :
        \/ \E name \in WritableNames : StartDelete(s, name)
        \/ \E set_seen \in BOOLEAN : StartFetch(s, FirstUid, set_seen)
        \/ FetchFind(s)
        \/ FetchSave(s)
        \/ StartSearch(s)
        \/ SearchMessages(s)
        \/ StartExpunge(s, FirstUid)
        \/ ExpungeFind(s)
        \/ ExpungeDelete(s)
        \/ StartStore(s, FirstUid, SeenOnly, "ADD")
        \/ StoreFind(s)
        \/ StoreSave(s)
        \/ \E dest \in WritableNames : StartCopy(s, FirstUid, dest)
        \/ CopyDest(s)
        \/ CopyFind(s)
        \/ CopyAdd(s)
        \/ \E name \in WritableNames : StartSelect(s, name, FALSE)
        \/ SelectMessages(s)
        \/ SelectSave(s)
        \/ SelectSnapshot(s)
        \/ \E value \in BOOLEAN : StartSubscribe(s, "Work", value)
        \/ SubscribeSet(s)
        \/ LoadGet(s)
        \/ LoadItems(s)

SpecMissing == InitMissing /\ [][NextMissing]_vars

\* The search-key parser applied to one buffer: every token sequence of up to
\* MaxTokens tokens, every keyword followed by up to two arguments, and the
\* valid keys among these nested once more under NOT, OR and a key list.
Tokens ==
    {"NOT", "OR", "(", ")", "ALL", "all", "KEYWORD", "\\Seen", "$Fwd", "BODY",
     "FROM", "1:*"}
TokenSeqs == UNION {[1..n -> Tokens] : n \in 0..MaxTokens}

Keywords ==
    NullaryKeys \cup StringKeys \cup DateKeys \cup FlagKeys \cup NumberKeys
        \cup {"UID", "HEADER", "OR", "NOT", "NIL"}
Arguments == {"$Fwd", "\\Seen", "1:*", "100", "1-Jan-2020"}
ArgumentSeqs == UNION {[1..n -> Arguments] : n \in 0..2}
LeafInputs == {<<k>> \o a : k \in Keywords, a \in ArgumentSeqs}

Complete(b) == ParseKey(b).ok /\ ParseKey(b).rest = <<>>
ValidLeaves == {b \in LeafInputs : Complete(b)}
Operands ==
    {<<"ALL">>, <<"1:*">>, <<"SEEN">>, <<"FROM", "$Fwd">>, <<"BODY", "$Fwd">>,
     <<"KEYWORD", "$Fwd">>, <<"KEYWORD", "\\Seen">>, <<"UNKEYWORD", "\\Seen">>}
NestedOnce ==
    ValidLeaves \cup Operands
        \cup {<<"OR">> \o l \o r : l \in ValidLeaves \cup Operands, r \in Operands}
        \cup {<<"(">> \o l \o r \o <<")">> : l \in ValidLeaves \cup Operands, r \in Operands}
NestedInputs ==
    {<<"NOT">> \o b : b \in NestedOnce}
        \cup {<<"(">> \o b \o <<")">> : b \in NestedOnce}
        \cup {<<"OR">> \o b \o r : b \in NestedOnce, r \in Operands}
        \cup {<<"NOT", "(", "NOT">> \o b \o <<")">> : b \in NestedOnce}
SearchInputs == TokenSeqs \cup LeafInputs \cup NestedInputs

InitParse ==
    /\ InitBackend
    /\ IdleSessions
    /\ buf \in SearchInputs
    /\ parsed = NoParse
    /\ NoScript

\* search_key, buf = SearchKey.parse(buf, params)
ParseSearch ==
    /\ ~parsed.done
    /\ parsed' = ParseKey(buf)
    /\ UNCHANGED <<mbox, validity_gen, view, pc, loc, cmds, serial, subscribed, buf,
                   commands, run, woken>>

NextParse == ParseSearch

SpecParse == InitParse /\ [][NextParse]_vars

\* -------------------------------------------------------------- SieveRunner

\* A sievelib Command as the runner reads it: get_type(), name, the outcome of
\* its test on the message at hand, and its children.
ActionCommand(name) ==
    [type |-> "action", name |-> name, test |-> FALSE, children |-> <<>>]
ControlCommand(name, test, children) ==
    [type |-> "control", name |-> name, test |-> test, children |-> children]

\* SieveTest.of(cmd.arguments['test']).run(sender, recipient, append_msg, content)
TestResult(cmd) == cmd.test

\* A runner that goes on looking for a branch after it has run one.
RunningIfKept(running_if) == running_if

\* running_if = None, before the children of the branch are run
RunningIfTaken(running_if) == FALSE

\* _get_actions from the i-th command on, with the local running_if (whether
\* it holds a command) and the shared list `actions`; stopped tells that
\* StopRunning was raised.
RECURSIVE GetActionsFrom(_, _, _, _)
GetActionsFrom(cmds_, i, running_if, actions) ==
    IF i > Len(cmds_) THEN [actions |-> actions, stopped |-> FALSE]
    ELSE
    LET cmd == cmds_[i]
        appended == IF cmd.type = "action" THEN Append(actions, cmd.name)
                    ELSE actions
        running == IF cmd.type = "control" /\ cmd.name = "if" THEN TRUE
                   ELSE running_if
    IN
    IF cmd.type = "control" /\ cmd.name = "stop"
    THEN [actions |-> actions, stopped |-> TRUE]
    ELSE IF ~running
    THEN GetActionsFrom(cmds_, i + 1, running, appended)
    ELSE IF cmd.name \in {"if", "elsif"} /\ ~TestResult(cmd)
    THEN GetActionsFrom(cmds_, i + 1, running, appended)
    ELSE IF cmd.name \notin {"if", "elsif", "else"}
    THEN GetActionsFrom(cmds_, i + 1, FALSE, appended)
    ELSE LET sub == GetActionsFrom(cmd.children, 1, FALSE, appended) IN
         IF sub.stopped THEN sub
         ELSE GetActionsFrom(cmds_, i + 1, RunningIfTaken(running), sub.actions)

\* get_actions: the list is returned whether or not StopRunning was raised.
GetActions(cmds_) == GetActionsFrom(cmds_, 1, FALSE, <<>>).actions

\* The commands of the scripts: at the inner level an action or a stop, one
\* level up also require and the five branch heads over the inner bodies.
Stop == ControlCommand("stop", FALSE, <<>>)
Require == ControlCommand("require", FALSE, <<>>)
InnerBodies == {<<ActionCommand("discard")>>, <<Stop>>}
BranchHeads ==
    {<<"if", TRUE>>, <<"if", FALSE>>, <<"elsif", TRUE>>, <<"elsif", FALSE>>,
     <<"else", FALSE>>}
Branch(head, children) == ControlCommand(head[1], head[2], children)
FlatCommands ==
    {ActionCommand("keep"), Stop, Require}
        \cup {Branch(h, b) : h \in BranchHeads, b \in InnerBodies}
\* The scripts of up to n of these commands.
FlatScripts(n) == UNION {[1..k -> FlatCommands] : k \in 0..n}

\* A script of fewer than n commands run as the children of a branch, between
\* two actions.
IfHeads == {<<"if", TRUE>>, <<"if", FALSE>>}
ElseHead == <<"else", FALSE>>
NestedScripts(n) ==
    {<<ActionCommand("redirect"), Branch(h, s), ActionCommand("reject")>> :
        h \in IfHeads, s \in FlatScripts(n - 1)}
        \cup {<<Branch(<<"if", FALSE>>, <<>>), Branch(ElseHead, s),
                ActionCommand("reject")>> : s \in FlatScripts(n - 1)}
SieveInputs(n) == FlatScripts(n) \cup NestedScripts(n)

InitSieve ==
    /\ InitBackend
    /\ IdleSessions
    /\ buf = <<>> /\ parsed = NoParse
    /\ commands \in SieveInputs(MaxCommands)
    /\ run = NoRun

\* actions = SieveRunner(commands).get_actions(sender, recipient, append_msg)
RunSieve ==
    /\ ~run.done
    /\ run' = [done |-> TRUE, actions |-> GetActions(commands)]
    /\ UNCHANGED <<mbox, validity_gen, view, pc, loc, cmds, serial, subscribed, buf,
                   parsed, commands, woken>>

NextSieve == RunSieve

SpecSieve == InitSieve /\ [][NextSieve]_vars

\* ------------------------------------------------------------------ claims

\* Session s takes the step.
Acts(s) == pc'[s] # pc[s] \/ loc'[s] # loc[s] \/ cmds'[s] # cmds[s]

\* Session s issues command c in the step.
Issues(s, c) == cmds'[s] = cmds[s] + 1 /\ loc'[s].cmd = c

\* The command of s ends in the step with MailboxReadOnly, nothing stored or
\* selected has changed and no update event was set.
Refused(s) ==
    /\ pc'[s] = "idle"
    /\ loc'[s].error = "MailboxReadOnly"
    /\ loc'[s].signalled = {}
    /\ mbox' = mbox
    /\ view' = view

\* C1: EXPUNGE and STORE issued with a read-only view, and APPEND to a
\* read-only mailbox, fail with MailboxReadOnly; no message is added, deleted
\* or flag-changed and no update event is set.
C1_ReadOnlyRefused ==
    [][\A s \in Sessions :
          /\ (Issues(s, "expunge") \/ Issues(s, "store")) /\ view[s].readonly
                => Refused(s)
          /\ \A name \in Names :
                /\ MailboxReadonly(name)
                /\ StartAppend(s, name, OneMessage)
                => Refused(s)]_vars

\* A STORE on a read-only view and an APPEND to the read-only mailbox were refused.
C1_Witness ==
    \E s, t \in Sessions :
        /\ pc[s] = "idle" /\ loc[s].cmd = "store" /\ view[s].readonly
        /\ loc[s].error = "MailboxReadOnly"
        /\ pc[t] = "idle" /\ loc[t].cmd = "append" /\ loc[t].error = "MailboxReadOnly"
        /\ \E u \in ExpungeUids(mbox[view[s].name].messages) : TRUE

\* C2: each UID is in the session-recent set of at most one live selected view
\* of its mailbox, under any interleaving of SELECT, APPEND and COPY.
C2_RecentOwnedOnce ==
    \A s, t \in Sessions :
        s # t /\ Selected(s) /\ view[s].name = view[t].name
            => view[s].recent \cap view[t].recent = {}

\* C3: an APPEND or COPY with no live view on the destination stores each new
\* message with its recent bit set and no view gains the UID; with a live view
\* exactly one view of the destination gains the UID and the message is stored
\* with its recent bit not set.
C3_RecentOnAdd ==
    [][\A s \in Sessions :
          pc[s] \in {"append_add", "copy_add"} /\ Acts(s) =>
             LET d == loc[s].dest
                 uid == mbox[d].next_uid
                 gained == {t \in Sessions : uid \in view'[t].recent \ view[t].recent}
             IN /\ uid \in DOMAIN mbox'[d].messages
                /\ IF mbox[d].selected_set = {}
                   THEN mbox'[d].messages[uid].recent /\ gained = {}
                   ELSE /\ ~mbox'[d].messages[uid].recent
                        /\ Cardinality(gained) = 1
                        /\ gained \subseteq mbox[d].selected_set]_vars

\* A peer's view of INBOX owns the recent bit of an appended message, and a
\* message added to Work while nobody had it selected is stored as recent.
C3_Witness ==
    \E s, t \in Sessions :
        /\ s # t /\ pc[s] = "idle" /\ loc[s].cmd \in {"append", "copy"}
        /\ view[t].name = "INBOX" /\ 3 \in view[t].recent
        /\ 3 \in DOMAIN mbox["INBOX"].messages /\ ~mbox["INBOX"].messages[3].recent
        /\ 2 \in DOMAIN mbox["Work"].messages /\ mbox["Work"].messages[2].recent

\* C4: after every refresh of a view, every UID in the view's map is strictly
\* below the view's next_uid, also when a peer adds messages between the copy
\* of next_uid and the streaming of items().
C4_UidsBelowNextUid ==
    \A s \in Sessions :
        pc[s] = "idle" /\ Selected(s) =>
            \A u \in DOMAIN view[s].messages : u < view[s].next_uid

C6_UidResult ==
    [][\A s \in Sessions :
          /\ pc[s] = "copy_find" /\ Acts(s) =>
                LET src == DOMAIN mbox[loc[s].mbx].messages \cap loc[s].uid_set IN
                IF src = {}
                THEN /\ loc'[s].uids = <<>>
                     /\ loc'[s].ret_validity = mbox[loc[s].dest].uid_validity
                ELSE [i \in DOMAIN loc'[s].todo |-> loc'[s].todo[i].src] = SortedSeq(src)
          /\ pc[s] \in {"append_add", "copy_add"} /\ Acts(s) =>
                LET d == loc[s].dest
                    uid == mbox[d].next_uid
                IN /\ DOMAIN mbox'[d].messages = DOMAIN mbox[d].messages \cup {uid}
                   /\ uid \notin DOMAIN mbox[d].messages
                   /\ loc'[s].uids =
                         Append(loc[s].uids, [src |-> Head(loc[s].todo).src, uid |-> uid])
                   /\ (pc'[s] # pc[s]) = (Tail(loc[s].todo) = <<>>)
                   /\ pc'[s] # pc[s] =>
                         loc'[s].ret_validity = mbox'[d].uid_validity]_vars

\* A COPY from INBOX to Work has returned the uid_validity of Work, which is
\* not that of INBOX, and uid 2 for the copy of message 1, while a peer's
\* APPEND of two messages to Work got uids 1 and 3.
C6_Witness ==
    \E s, t \in Sessions :
        /\ loc[s].cmd = "copy" /\ Len(loc[s].uids) = 1
        /\ loc[s].uids[1].src = 1 /\ loc[s].uids[1].uid = 2
        /\ loc[s].ret_validity = mbox["Work"].uid_validity
        /\ loc[s].ret_validity # mbox["INBOX"].uid_validity
        /\ loc[t].cmd = "append"
        /\ Len(loc[t].uids) = 2
        /\ loc[t].uids[1].uid = 1 /\ loc[t].uids[2].uid = 3

\* The session flags the view holds for a uid.
SessionFlagsOf(v, u) == IF u \in DOMAIN v.session_flags THEN v.session_flags[u] ELSE {}

\* The STORE of s asks for no flag its view permits.
NonePermitted(s) == view[s].permanent_flags \cap loc[s].flag_set = {}

\* The find() loop of a STORE updates the session flags of every message found
\* with the whole flag set asked for.
SessionFlagsStored(s) ==
    pc[s] = "store_find" /\ Acts(s) /\ NonePermitted(s) =>
        \A u \in DOMAIN loc'[s].loaded :
            SessionFlagsOf(view'[s], u)
                = ApplyFlagOp(SessionFlagsOf(view[s], u), loc[s].flag_set, loc[s].mode)

AllPermitted ==
    \A n \in Names : \A u \in DOMAIN mbox[n].messages :
        mbox[n].messages[u].permanent_flags \subseteq MailboxPermanentFlags(n)

\* C8: no step of a STORE or a FETCH gives a message a permanent flag outside
\* its mailbox's permitted set.
C8_PermanentFlagsPermitted ==
    [][\A s \in Sessions :
          Acts(s) /\ loc'[s].cmd \in {"store", "fetch"} /\ AllPermitted
              => AllPermitted']_vars

\* C9: no step of a command issued with a read-only view (SELECT/EXAMINE
\* itself, FETCH, STORE, EXPUNGE, SEARCH, NOOP) changes the flags or the recent
\* bit of a message of the view's mailbox or removes one.
C9_ReadOnlyViewFrame ==
    [][\A s \in Sessions :
          /\ Acts(s) /\ view'[s].name # "" /\ view'[s].readonly
          /\ loc'[s].cmd \in {"select", "fetch", "store", "expunge", "search", "check"}
          => mbox'[view'[s].name].messages = mbox[view'[s].name].messages]_vars

\* A FETCH asking for \Seen has run to its end on a read-only view of a
\* mailbox that holds an unseen and still recent message.
C9_Witness ==
    \E s \in Sessions :
        /\ pc[s] = "idle" /\ loc[s].cmd = "fetch" /\ loc[s].set_seen
        /\ loc[s].error = "" /\ view[s].readonly
        /\ \E u \in DOMAIN view[s].messages :
              /\ u \in DOMAIN mbox[view[s].name].messages
              /\ "Seen" \notin mbox[view[s].name].messages[u].permanent_flags
              /\ mbox[view[s].name].messages[u].recent

\* The mailbox of the view of s is gone and the view is not yet marked.
Gone(s) == Selected(s) /\ ~view[s].is_deleted /\ ~mbox[view[s].name].exists

\* C10 as claimed: once its mailbox is deleted, the next command a session
\* issues with the view, whichever it is, ends without failing and with the
\* view marked as deleted.
C10_TombstoneOnNextCommand ==
    [][\A s \in Sessions :
          /\ Gone(s) /\ Acts(s) /\ pc'[s] = "idle"
          /\ loc'[s].cmd \in {"check", "fetch", "search", "list"}
          => loc'[s].error = "" /\ view'[s].is_deleted]_vars

\* C10 amended: while no mailbox of the view's name exists, NOOP, FETCH and
\* SEARCH fail with MailboxNotFound and leave the view as it was; LIST, and a
\* CREATE, DELETE or APPEND that reaches its refresh, end with the view marked
\* as deleted.
C10_TombstoneOnRefresh ==
    [][\A s \in Sessions :
          Gone(s) /\ Acts(s) =>
             /\ loc'[s].cmd \in {"check", "fetch", "search"} =>
                   /\ pc'[s] = "idle"
                   /\ loc'[s].error = "MailboxNotFound"
                   /\ view'[s] = view[s]
             /\ Issues(s, "list") => pc'[s] = "load_get"
             /\ pc[s] = "load_get" =>
                   /\ pc'[s] = "idle"
                   /\ loc'[s].error = ""
                   /\ view'[s].is_deleted]_vars

\* A LIST has returned the view of a deleted mailbox marked as deleted.
C10_Witness ==
    \E s \in Sessions :
        /\ pc[s] = "idle" /\ loc[s].cmd = "list" /\ view[s].is_deleted
        /\ ~mbox[view[s].name].exists

\* C11: an APPEND by a session to the mailbox it has selected puts each new
\* UID in that session's session-recent set and in no peer's; a check_mailbox
\* that ends returns a view whose map is the mailbox's messages with their
\* permanent flags, the appended ones included, and gains no recent UID.
C11_AppendThenPeerCheck ==
    [][\A s \in Sessions :
          /\ pc[s] = "append_add" /\ Acts(s) /\ view[s].name = loc[s].dest =>
                LET uid == mbox[loc[s].dest].next_uid IN
                /\ uid \in view'[s].recent
                /\ \A t \in Sessions \ {s} : uid \notin view'[t].recent
          /\ pc[s] = "load_items" /\ loc[s].cmd = "check" /\ Acts(s) =>
                /\ view'[s].messages = MailboxItems(mbox[view[s].name])
                /\ view'[s].recent = view[s].recent]_vars

\* A has appended UID 2 to INBOX, which both have selected, and B's check has
\* returned since: B's view holds UID 2 with its flags, A owns its recent bit.
C11_Witness ==
    \E s, t \in Sessions :
        /\ s # t /\ view[s].name = "INBOX" /\ view[t].name = "INBOX"
        /\ pc[s] = "idle" /\ loc[s].cmd = "append" /\ Len(loc[s].uids) = 1
        /\ loc[s].uids[1].uid = 2
        /\ pc[t] = "idle" /\ loc[t].cmd = "check"
        /\ DOMAIN view[t].messages = {1, 2} /\ view[t].messages[2] = {}
        /\ 2 \in view[s].recent /\ 2 \notin view[t].recent

\* The messages an EXPUNGE of s is to delete: those stored in its mailbox that
\* its uid set addresses and whose permanent flags contain \Deleted.
ExpungeTargets(s) ==
    {u \in DOMAIN mbox[loc[s].mbx].messages \cap loc[s].uid_set :
        "Deleted" \in mbox[loc[s].mbx].messages[u].permanent_flags}

\* EXPUNGE collects exactly its targets, deletes them in one step leaving every
\* other message as it was, and sets the update event of its mailbox.
ExpungeDeletesTargets(s) ==
    /\ pc[s] = "expunge_find" /\ Acts(s) => loc'[s].uid_set = ExpungeTargets(s)
    /\ pc[s] = "expunge_delete" /\ Acts(s) =>
          /\ mbox'[loc[s].mbx].messages =
                [u \in DOMAIN mbox[loc[s].mbx].messages \ loc[s].uid_set |->
                    mbox[loc[s].mbx].messages[u]]
          /\ loc'[s].signalled = {loc[s].mbx}
          /\ \A n \in Names \ {loc[s].mbx} : mbox'[n] = mbox[n]

\* The number of messages in the view the EXPUNGE of s returns.
ExpungedCount(s) ==
    Cardinality(DOMAIN LoadUpdates(view[s], loc[s].mbx, mbox').messages)

\* The number of messages the delete step of s removes.
DeletedCount(s) ==
    Cardinality(DOMAIN mbox[loc[s].mbx].messages)
        - Cardinality(DOMAIN mbox'[loc[s].mbx].messages)

\* C12 as claimed: EXPUNGE deletes exactly the addressed messages flagged
\* \Deleted, in one call, sets the update event, leaves every other message,
\* and the refreshed view has exactly that many messages fewer than the view
\* the command was issued with.
C12_ExpungeExact ==
    [][\A s \in Sessions :
          /\ ExpungeDeletesTargets(s)
          /\ pc[s] = "expunge_delete" /\ Acts(s) =>
                ExpungedCount(s)
                    = Cardinality(DOMAIN view[s].messages) - DeletedCount(s)]_vars

\* C12 amended: the refreshed view holds the messages the mailbox is left
\* with, that many fewer than the mailbox held; it has that many fewer than
\* the view the command was issued with when that view held the mailbox's
\* messages.
C12_ExpungeExactOfMailbox ==
    [][\A s \in Sessions :
          /\ ExpungeDeletesTargets(s)
          /\ pc[s] = "expunge_delete" /\ Acts(s) =>
                /\ ExpungedCount(s)
                      = Cardinality(DOMAIN mbox[loc[s].mbx].messages) - DeletedCount(s)
                /\ DOMAIN view[s].messages = DOMAIN mbox[loc[s].mbx].messages
                      /\ loc[s].uid_set \subseteq DOMAIN mbox[loc[s].mbx].messages =>
                      ExpungedCount(s) = Cardinality(DOMAIN view[s].messages)
                                            - Cardinality(loc[s].uid_set)
          /\ pc[s] = "load_items" /\ loc[s].cmd = "expunge" /\ Acts(s) =>
                view'[s].messages = MailboxItems(mbox[view[s].name])]_vars

\* An EXPUNGE has removed message 2 of INBOX, which was flagged \Deleted, and
\* left message 1: the view returned holds message 1.
C12_Witness ==
    \E s \in Sessions :
        /\ pc[s] = "idle" /\ loc[s].cmd = "expunge" /\ loc[s].signalled = {"INBOX"}
        /\ view[s].name = "INBOX" /\ DOMAIN view[s].messages = {1}
        /\ DOMAIN mbox["INBOX"].messages = {1} /\ mbox["INBOX"].next_uid = 3

\* The buffer was a search key text and nothing else, and has been parsed.
ParsedKeyText == parsed.done /\ parsed.ok /\ parsed.rest = <<>>

NotOnce == <<"NOT">>
NotTwice == <<"NOT", "NOT">>

\* C13: for a valid search key text k, `NOT k` parses to the key of k with
\* inverse toggled, and `NOT NOT k` parses to the key of k.
C13_NotTogglesInverse ==
    ParsedKeyText =>
        LET once == ParseKey(NotOnce \o buf)
            twice == ParseKey(NotTwice \o buf)
        IN  /\ once.ok /\ once.key = NotInverse(parsed.key)
            /\ twice.ok /\ twice.key = parsed.key

\* The keys a KEYSET or OR key is made of.
NodeKeys == {"KEYSET", "OR"}
Children(k) == {Requirement(k.filter[i]) : i \in DOMAIN k.filter}

\* The requirement of the node is one no child exceeds and, when the node has
\* children, one a child has.
NodeIsMax(k) ==
    /\ \A c \in Children(k) : Level(c) <= Level(Requirement(k))
    /\ Children(k) # {} => Requirement(k) \in Children(k)

RECURSIVE MaxAtEveryNode(_)
MaxAtEveryNode(k) ==
    k.key \in NodeKeys =>
        /\ NodeIsMax(k)
        /\ \A i \in DOMAIN k.filter : MaxAtEveryNode(k.filter[i])

Mutators == {"append", "expunge", "copy", "store"}
MutationPcs ==
    {"append_add", "expunge_find", "expunge_delete", "copy_dest", "copy_find",
     "copy_add", "store_find", "store_save"}
RefreshPcs == {"load_get", "load_items"}

\* The mailbox the command of locals l changes.
Target(l) == IF l.cmd = "copy" THEN l.dest ELSE l.mbx

\* Session s takes the last step of its command's own work and goes on to the
\* refresh (or ends, with no view to refresh).
EndsMutations(s) ==
    /\ Acts(s)
    /\ pc[s] \in MutationPcs /\ pc'[s] \notin MutationPcs
    /\ loc'[s].error = ""

\* The mailbox holds what the command of s was to do to it once the step is
\* taken: the messages added, none of the messages to delete, the flags saved.
MutationsDone(s) ==
    LET l == loc[s]
        after == mbox'[Target(l)].messages
    IN  /\ l.cmd \in {"append", "copy"} =>
              \A i \in DOMAIN loc'[s].uids : loc'[s].uids[i].uid \in DOMAIN after
        /\ l.cmd = "expunge" => l.uid_set \cap DOMAIN after = {}
        /\ l.cmd = "store" =>
              \A u \in DOMAIN l.loaded \cap DOMAIN after : after[u] = l.loaded[u]

\* C15: in APPEND, EXPUNGE, COPY and STORE the update event of the changed
\* mailbox is set after all of the command's backend mutations and before
\* its refresh: no event is set while mutations are still to come, the step
\* of the last mutation sets it with the mutations in the mailbox, and every
\* step of the refresh, which changes no mailbox, finds it set.
C15_SignalBeforeRefresh ==
    [][\A s \in Sessions :
          /\ pc[s] \in MutationPcs => loc[s].signalled = {}
          /\ EndsMutations(s) =>
                /\ loc'[s].signalled = {Target(loc[s])}
                /\ MutationsDone(s)
          /\ pc[s] \in RefreshPcs /\ loc[s].cmd \in Mutators =>
                /\ loc[s].signalled # {}
                /\ Acts(s) => mbox' = mbox]_vars

\* An EXPUNGE has deleted message 2 of INBOX and set the update event; its
\* refresh has not streamed the messages yet, so its view still holds message
\* 2, while a peer is in the middle of a command of its own.
C15_Witness ==
    \E s \in Sessions, t \in Sessions :
        /\ s # t
        /\ pc[s] = "load_items" /\ loc[s].cmd = "expunge"
        /\ loc[s].signalled = {"INBOX"}
        /\ 2 \notin DOMAIN mbox["INBOX"].messages
        /\ 2 \in DOMAIN view[s].messages
        /\ pc[t] \in MutationPcs

\* C16: the view a command returns reflects the backend mailbox at one single
\* instant after the command's last mutation, also when peers change the
\* mailbox at the suspension points of the refresh: where messages are only
\* ever added, the view that the streaming of items() completes has the
\* uid_validity, the next_uid and the messages of the mailbox streamed.
C16_ConsistentSnapshot ==
    [][\A s \in Sessions :
          pc[s] = "load_items" /\ Acts(s) =>
              LET mbx == mbox[loc[s].mbx] IN
              /\ view'[s].uid_validity = mbx.uid_validity
              /\ view'[s].next_uid = mbx.next_uid
              /\ view'[s].messages = MailboxItems(mbx)]_vars

\* C17: check_mailbox with a wait_on event always terminates and returns a
\* refreshed view: the wait ends with the cancellation event, the update
\* event or the timeout, whichever comes first, nothing is raised, and in all
\* three cases the refresh runs afterwards.
C17_WaitEndsInRefresh ==
    /\ \A s \in Sessions :
          pc[s] = "check_wait" ~>
              /\ pc[s] = "idle" /\ loc[s].cmd = "check"
              /\ loc[s].wait \in WaitOutcomes /\ loc[s].error = ""
    /\ [][\A s \in Sessions :
             /\ pc[s] = "check_wait" /\ Acts(s) =>
                   /\ pc'[s] = "load_items"
                   /\ loc'[s].error = ""
                   /\ loc'[s].wait \in WaitOutcomes
                   /\ loc'[s].wait = "updated" <=> s \in woken
                   /\ view'[s].next_uid = mbox[view[s].name].next_uid
             /\ pc[s] = "load_items" /\ loc[s].wait # "" /\ Acts(s) =>
                   /\ pc'[s] = "idle"
                   /\ view'[s].messages = MailboxItems(mbox[view[s].name])]_vars

\* One session's wait was ended by the update event of a peer's APPEND and
\* its view holds the appended message 3; the peer's own wait then ended with
\* the timeout, and its view was refreshed as well.
C17_Witness ==
    \E s \in Sessions, t \in Sessions :
        /\ pc[s] = "idle" /\ loc[s].cmd = "check" /\ loc[s].wait = "updated"
        /\ 3 \in DOMAIN view[s].messages
        /\ pc[t] = "idle" /\ loc[t].cmd = "check" /\ loc[t].wait = "timeout"
        /\ loc[t].error = "" /\ 3 \in DOMAIN view[t].messages

\* The uids of the stored messages of mailbox `name` whose recent bit is set.
StoredRecent(mb, name) ==
    {u \in DOMAIN mb[name].messages : mb[name].messages[u].recent}

\* Session s is inside, or has just completed, a SELECT that made a writable view.
SelectsWritable(s) == loc[s].cmd = "select" /\ loc[s].error = "" /\ ~view[s].readonly

\* C18: a SELECT of a writable mailbox run without interleaving leaves no
\* stored message of the mailbox with its recent bit set; the new view's
\* session-recent set is exactly the uids whose stored bit was set before, and
\* the cleared messages are persisted by save_flags; for an empty mailbox the
\* view has no messages, next_uid 1 and an empty recent set.
C18_SelectTakesRecent ==
    [][\A s \in Sessions :
          /\ Issues(s, "select") /\ pc'[s] = "select_messages" =>
                /\ view'[s].recent = {}
                /\ StoredRecent(mbox', loc'[s].mbx) = StoredRecent(mbox, loc'[s].mbx)
          /\ pc[s] = "select_messages" /\ Acts(s) =>
                /\ view'[s].recent = StoredRecent(mbox, loc[s].mbx)
                /\ mbox' = mbox
          /\ pc[s] = "select_save" /\ Acts(s) =>
                /\ view'[s].recent = StoredRecent(mbox, loc[s].mbx)
                /\ StoredRecent(mbox', loc[s].mbx) = {}
                /\ MailboxItems(mbox'[loc[s].mbx]) = MailboxItems(mbox[loc[s].mbx])
          /\ SelectsWritable(s) /\ pc[s] \in {"select_snapshot", "load_items"} /\ Acts(s) =>
                /\ view'[s].recent = view[s].recent
                /\ StoredRecent(mbox', view[s].name) = {}
          /\ SelectsWritable(s) /\ pc[s] = "load_items" /\ Acts(s)
                /\ mbox[view[s].name].next_uid = 1 =>
                /\ DOMAIN view'[s].messages = {}
                /\ view'[s].next_uid = 1
                /\ view'[s].recent = {}]_vars

\* One session has selected INBOX, whose two messages had never been selected:
\* it owns both recent bits and none is left in the store; the other has
\* selected the empty Work: no messages, next_uid 1, nothing recent.
C18_Witness ==
    \E s \in Sessions, t \in Sessions :
        /\ pc[s] = "idle" /\ SelectsWritable(s) /\ view[s].name = "INBOX"
        /\ view[s].recent = {1, 2} /\ StoredRecent(mbox, "INBOX") = {}
        /\ DOMAIN mbox["INBOX"].messages = {1, 2}
        /\ pc[t] = "idle" /\ SelectsWritable(t) /\ view[t].name = "Work"
        /\ DOMAIN view[t].messages = {} /\ view[t].next_uid = 1 /\ view[t].recent = {}

\* The annotation table: the requirement each leaf keyword declares.
NoneKeys == {"ALL", "SEQSET"}
Annotated(key) ==
    IF key \in NoneKeys THEN "NONE"
    ELSE IF key \in {"SENTBEFORE", "SENTON", "SENTSINCE", "HEADER", "BCC", "CC",
                     "FROM", "TO", "SUBJECT"} THEN "HEADERS"
    ELSE IF key \in {"BODY", "TEXT"} THEN "BODY"
    ELSE "METADATA"

\* C19: the requirement of a leaf search key follows the annotation table:
\* ALL and SEQSET (also when parsed from `UID <set>`) require NONE, the
\* date-sent, header, address and subject keys HEADERS, BODY and TEXT require
\* BODY, every other keyword METADATA.
C19_LeafRequirement ==
    parsed.done /\ parsed.ok /\ parsed.key.key \notin NodeKeys =>
        Requirement(parsed.key) = Annotated(parsed.key.key)

\* The tokens the parse has consumed.
Consumed == SubSeq(buf, 1, Len(buf) - Len(parsed.rest))

\* KEYWORD or UNKEYWORD stands right before a system flag in b.
HasSystemKeyword(b) ==
    \E i \in 1..(Len(b) - 1) : Upper(b[i]) \in FlagKeys /\ IsSystem(b[i + 1])

\* The buffer is KEYWORD or UNKEYWORD and a flag that is no system flag.
KeywordText ==
    /\ Len(buf) = 2 /\ Upper(buf[1]) \in FlagKeys
    /\ IsFlag(buf[2]) /\ ~IsSystem(buf[2])

\* C20: KEYWORD or UNKEYWORD with a system flag is not parsed, at top level
\* or under NOT, OR or a key list: no successful parse consumes such a pair,
\* the failure is a NotParseable and yields no key; with a flag that is no
\* system flag the key is tagged with the keyword and has the flag as filter.
C20_SystemFlagRejected ==
    parsed.done =>
        /\ parsed.ok => ~HasSystemKeyword(Consumed)
        /\ ~parsed.ok => IsNotParseable(parsed.error) /\ parsed.key = NoKey
        /\ KeywordText =>
              /\ parsed.ok /\ parsed.rest = <<>>
              /\ parsed.key.key = Upper(buf[1]) /\ parsed.key.filter = <<buf[2]>>
              /\ ~parsed.key.inverse

\* `NOT ( NOT OR ALL KEYWORD \Seen )`: a system flag after KEYWORD under NOT,
\* OR and a key list.
NestedSystemKeyword == <<"NOT", "(", "NOT", "OR", "ALL", "KEYWORD", "\\Seen", ")">>

\* The nested text has been parsed and was refused.
C20_Witness ==
    /\ parsed.done /\ buf = NestedSystemKeyword
    /\ ~parsed.ok /\ IsNotParseable(parsed.error)

\* Session s returns from a command, with no error, in the step.
Returns(s) == pc[s] # "idle" /\ pc'[s] = "idle" /\ loc'[s].error = ""

\* C21: every command that changes stored message state has set the update
\* event of the changed mailbox when it returns: APPEND, EXPUNGE, COPY and
\* STORE, and also a FETCH that adds \Seen and a SELECT that clears stored
\* recent bits; the event wakes the sessions waiting in check_mailbox.
C21_ChangeSignalled ==
    [][\A s \in Sessions :
          /\ Returns(s) => loc'[s].changed \subseteq loc'[s].signalled
          /\ \A n \in loc'[s].signalled \ loc[s].signalled :
                \A t \in Sessions :
                    pc[t] = "check_wait" /\ loc[t].mbx = n => t \in woken']_vars

\* C22: a refresh loads the view from the mailbox of the view's own name:
\* when the command's mailbox is another one (APPEND, STATUS, SUBSCRIBE and
\* UNSUBSCRIBE), the uid_validity and next_uid copied and the messages
\* streamed are those of the selected mailbox.
C22_RefreshOwnMailbox ==
    [][\A s \in Sessions :
          /\ Acts(s) /\ pc[s] # "load_items" /\ pc'[s] = "load_items" =>
                /\ loc'[s].mbx = view'[s].name
                /\ view'[s].uid_validity = mbox'[view'[s].name].uid_validity
                /\ view'[s].next_uid = mbox'[view'[s].name].next_uid
          /\ Acts(s) /\ pc[s] = "load_items" =>
                /\ view'[s].name = view[s].name
                /\ view'[s].uid_validity = view[s].uid_validity
                /\ view'[s].next_uid = view[s].next_uid
                /\ view'[s].messages = MailboxItems(mbox[view[s].name])]_vars

\* A session with Work selected has subscribed, which resolves INBOX, and a
\* message was appended to INBOX meanwhile: its view holds what Work holds, and
\* INBOX differs from it in uid_validity, next_uid and messages.
C22_Witness ==
    \E s \in Sessions :
        /\ pc[s] = "idle" /\ loc[s].cmd = "subscribe" /\ view[s].name = "Work"
        /\ view[s].uid_validity = mbox["Work"].uid_validity
        /\ view[s].next_uid = mbox["Work"].next_uid
        /\ view[s].messages = MailboxItems(mbox["Work"])
        /\ mbox["INBOX"].uid_validity # view[s].uid_validity
        /\ mbox["INBOX"].next_uid # view[s].next_uid
        /\ DOMAIN mbox["INBOX"].messages # DOMAIN view[s].messages
        /\ "Work" \in subscribed

\* The commands that resolve a mailbox by name on their own account.
DirectCommands ==
    {"fetch", "search", "expunge", "store", "copy", "select", "subscribe",
     "unsubscribe"}

\* Session s's command ends with MailboxNotFound in this step.
NotFound(s) ==
    /\ Acts(s) /\ pc'[s] = "idle"
    /\ loc'[s].cmd \in DirectCommands
    /\ loc'[s].error = "MailboxNotFound"

\* C23: a direct command that fails with MailboxNotFound while resolving its
\* mailbox leaves the stored mailboxes, messages and flags, the subscriptions
\* and every view as they were and sets no update event; COPY with a missing
\* source does not create its destination and SUBSCRIBE with a missing INBOX
\* does not change the subscriptions.
C23_NotFoundChangesNothing ==
    [][\A s \in Sessions :
          NotFound(s) =>
              /\ pc[s] = "idle"
              /\ mbox' = mbox
              /\ validity_gen' = validity_gen
              /\ subscribed' = subscribed
              /\ view' = view
              /\ woken' = woken
              /\ loc'[s].signalled = {}
              /\ loc'[s].changed = {}]_vars

\* Both writable mailboxes were deleted and a COPY from one into the other
\* has failed with MailboxNotFound: the destination still does not exist and
\* the view is not a tombstone.
C23_Witness ==
    \E s \in Sessions :
        /\ pc[s] = "idle" /\ loc[s].cmd = "copy"
        /\ loc[s].error = "MailboxNotFound"
        /\ \A n \in WritableNames : ~mbox[n].exists
        /\ view[s].name \in WritableNames /\ ~view[s].is_deleted

\* The UIDs this step adds to mailbox n.
AddedTo(n) == DOMAIN mbox'[n].messages \ DOMAIN mbox[n].messages

\* Every view registered on mailbox n is read-only.
OnlyReadOnlyViews(n) == \A t \in mbox[n].selected_set : view[t].readonly

\* C24: a read-only view never owns recent bits: its session-recent set stays
\* empty, and a message added to a mailbox while every view of it is read-only
\* is stored with its recent bit set.
C24_ReadOnlyOwnsNoRecent ==
    [][/\ \A s \in Sessions : view'[s].readonly => view'[s].recent = {}
       /\ \A n \in Names :
             mbox[n].exists /\ OnlyReadOnlyViews(n) =>
                 \A u \in AddedTo(n) : mbox'[n].messages[u].recent]_vars

\* The last command of the chain of elsif branches and an else branch that
\* follows command i.
RECURSIVE ChainEnd(_, _)
ChainEnd(cmds_, i) ==
    IF i < Len(cmds_) /\ cmds_[i + 1].name = "elsif" THEN ChainEnd(cmds_, i + 1)
    ELSE IF i < Len(cmds_) /\ cmds_[i + 1].name = "else" THEN i + 1
    ELSE i

\* The branches of the chain i..e whose children may run: those whose test
\* holds, and the else branch.
Holds(cmds_, i, e) == {k \in i..e : cmds_[k].name = "else" \/ cmds_[k].test}

\* What a script yields, read off its structure: an action yields itself, stop
\* ends everything, an if/elsif/else chain yields what the children of its
\* first branch that holds yield, and anything else yields nothing.
RECURSIVE Yield(_)
Yield(cmds_) ==
    IF cmds_ = <<>> THEN [actions |-> <<>>, stopped |-> FALSE]
    ELSE
    LET cmd == Head(cmds_) IN
    IF cmd.name = "stop" THEN [actions |-> <<>>, stopped |-> TRUE]
    ELSE IF cmd.type = "action"
    THEN LET rest == Yield(Tail(cmds_)) IN
         [actions |-> <<cmd.name>> \o rest.actions, stopped |-> rest.stopped]
    ELSE IF cmd.name = "if"
    THEN LET e == ChainEnd(cmds_, 1)
             holds == Holds(cmds_, 1, e)
             first == CHOOSE k \in holds : \A j \in holds : k <= j
             branch == IF holds = {} THEN [actions |-> <<>>, stopped |-> FALSE]
                       ELSE Yield(cmds_[first].children)
             rest == Yield(SubSeq(cmds_, e + 1, Len(cmds_)))
         IN IF branch.stopped THEN branch
            ELSE [actions |-> branch.actions \o rest.actions,
                  stopped |-> rest.stopped]
    ELSE Yield(Tail(cmds_))

\* C25: get_actions returns what the script yields: of each if/elsif/else
\* chain the children of the first branch whose test holds are run (those of
\* the else branch when no test holds, and of none without one), the actions
\* come in script order, and a stop at any depth ends the run with exactly
\* the actions collected before it.
C25_FirstBranchScriptOrder ==
    run.done => run.actions = Yield(commands).actions

\* The script was run inside a branch between two actions; in it an if whose
\* test fails is followed by a branch that is taken and holds a stop: the
\* action before the outer if was collected and the one after it was not.
C25_Witness ==
    /\ run.done /\ Len(commands) = 3
    /\ commands[1].name = "redirect" /\ commands[2].name = "if" /\ commands[2].test
    /\ Len(commands[2].children) = 2
    /\ commands[2].children[1].name = "if" /\ ~commands[2].children[1].test
    /\ commands[2].children[1].children[1].name = "discard"
    /\ commands[2].children[2].name \in {"elsif", "else"}
    /\ commands[2].children[2].children[1].name = "stop"
    /\ run.actions = <<"redirect">>

====
